---- MODULE Spec2Model ----
(***************************************************************************)
(* A model of yalo (src/yalo/yalo.h): the level table and its query, the   *)
(* sink list with per-sink failure isolation, the life of one log          *)
(* statement from construction to the destructor that flushes it, the      *)
(* settings file and its reload, and the locks as threads take them.       *)
(*                                                                         *)
(* Strings are sequences of one-character strings, so that find and        *)
(* substr are computed and not assumed.  A rendered line is a record of    *)
(* the fields DefaultFormatter::format puts into it (the date, the line    *)
(* number and the function name are left out).                             *)
(***************************************************************************)
EXTENDS Integers, Sequences, FiniteSets, TLC

VARIABLES levels, sinks, formatter, threads, spacing, aborted, last,
          settings, now, disk, pc, mutex, local, output, released

vars == <<levels, sinks, formatter, threads, spacing, aborted, last,
          settings, now, disk, pc, mutex, local, output, released>>

\* the settings cache with its clock and the files it reads
watch == <<settings, now, disk>>

\* the threads that run concurrently, the locks, what the sink has written,
\* and the formatters that have been destroyed
concurrent == <<pc, mutex, local, output, released>>

(***************************************************************************)
(* enum Level                                                              *)
(***************************************************************************)
Fatal == 0
Log == 1
Error == 2
Warning == 3
Info == 4
Debug == 5
Verbose == 6
Trace == 7

Levels == Fatal..Trace

(***************************************************************************)
(* Bounds of the model.                                                    *)
(***************************************************************************)
MaxPatLen == 2
MaxFileLen == 1
MaxSinks == 3
MaxAppend == 1
StartTime == 3
MaxTicks == 2
MaxPadValues == 3
MaxMatchLen == 4
MaxMatchFile == 2
NumThreads == 2
MaxStatements == 2
MaxCalls == 2
MaxLoop == 3
MaxNameLen == 2

PatChars == {"a", "-", ";"}
FileChars == {"a", "b"}
\* the values a statement appends: strings and numbers
Str(text) == [type |-> "string", value |-> text]
Num(n) == [type |-> "int", value |-> n]

Values == {Str(<<"test">>), Num(5)}

SeqsUpTo(S, n) == UNION {[1..k -> S] : k \in 0..n}

Patterns == SeqsUpTo(PatChars, MaxPatLen)
Files == SeqsUpTo(FileChars, MaxFileLen)
Streams == SeqsUpTo(Values, MaxAppend)

PadValues == {Str(<<>>), Str(<<"test">>), Num(5), Num(-12)}
PadStreams == SeqsUpTo(PadValues, MaxPadValues)

MatchChars == {"a", "b", "-", ";"}

MatchPatterns == SeqsUpTo(MatchChars, MaxMatchLen)
MatchFiles == SeqsUpTo(FileChars, MaxMatchFile)

(***************************************************************************)
(* std::string: positions count from 0, npos is larger than any size.      *)
(***************************************************************************)
npos == 2^30

Min(a, b) == IF a < b THEN a ELSE b

\* str.substr(pos, count), pos <= size
substr(str, pos, count) == SubSeq(str, pos + 1, Min(pos + count, Len(str)))

\* str.find(sub, pos): the first position >= pos where sub occurs, or npos
find(str, sub, pos) ==
    LET hits == {i \in pos..(Len(str) - Len(sub)) :
                    SubSeq(str, i + 1, i + Len(sub)) = sub}
    IN  IF hits = {} THEN npos
        ELSE CHOOSE i \in hits : \A j \in hits : i <= j

\* std::to_string(int): the decimal digits, with a sign when negative
Digits == <<"0", "1", "2", "3", "4", "5", "6", "7", "8", "9">>

RECURSIVE digits(_)
digits(n) == IF n < 10 THEN <<Digits[n + 1]>> ELSE digits(n \div 10) \o <<Digits[(n % 10) + 1]>>

to_string(n) == IF n < 0 THEN <<"-">> \o digits(0 - n) ELSE digits(n)

(***************************************************************************)
(* Logger::_fileMatches: the loop over the ';'-separated parts             *)
(***************************************************************************)
RECURSIVE fileMatchesLoop(_, _, _, _)
fileMatchesLoop(file, pattern, start, good) ==
    IF ~(start < Len(pattern)) THEN good
    ELSE LET end == find(pattern, <<";">>, start)
             part == substr(pattern, start, end - start)
             negative == find(part, <<"-">>, 0) = 0
             name == substr(part, IF negative THEN 1 ELSE 0, npos)
             matches == find(file, name, 0) # npos
         IN  fileMatchesLoop(file, pattern,
                             IF end < Len(pattern) THEN end + 1 ELSE end,
                             IF matches THEN ~negative ELSE good)

\* (mutant of _fileMatches: the verdict starts as "no match")
_fileMatchesFromFalse(file, pattern) == fileMatchesLoop(file, pattern, 0, FALSE)

_fileMatches(file, pattern) == fileMatchesLoop(file, pattern, 0, TRUE)

(***************************************************************************)
(* std::map<Level, std::string>: a function whose domain is the set of     *)
(* levels that have an entry.                                              *)
(***************************************************************************)
NoLevels == [l \in {} |-> <<>>]

Put(m, k, v) == [l \in (DOMAIN m) \cup {k} |-> IF l = k THEN v ELSE m[l]]

Erase(m, k) == [l \in (DOMAIN m) \ {k} |-> m[l]]

\* m[k] of std::map: a missing key is inserted with the empty string
Subscript(m, k) == IF k \in DOMAIN m THEN m ELSE Put(m, k, <<>>)

\* (mutant of _levelsNeedsLock: the default cap is Log)
_levelsDefaultLog(lv) == IF Cardinality(DOMAIN lv) = 0 THEN Put(lv, Log, <<>>) ELSE lv

\* (mutant of _levelsNeedsLock: the default cap is never installed)
_levelsAsIs(lv) == lv

\* Logger::_levelsNeedsLock: an empty table gets the default cap first
_levelsNeedsLock(lv) == IF Cardinality(DOMAIN lv) = 0 THEN Put(lv, Error, <<>>) ELSE lv

(***************************************************************************)
(* Logger::setLevel: the assignment and the loop from `level` to Trace     *)
(***************************************************************************)
RECURSIVE setLevelLoop(_, _, _)
setLevelLoop(lv, pattern, index) ==
    IF ~(index <= Trace) THEN lv
    ELSE LET read == Subscript(lv, index)
         IN  setLevelLoop(IF pattern = read[index] THEN Erase(read, index) ELSE read,
                          pattern, index + 1)

\* the table with {level: pattern} installed and nothing removed
Installed(lv, level, pattern) == Put(_levelsNeedsLock(lv), level, pattern)

setLevelTable(lv, level, pattern) ==
    setLevelLoop(Put(_levelsNeedsLock(lv), level, pattern), pattern, level)

\* (mutant of resetLevelsTable: the table is not cleared first)
resetLevelsKeep(lv, level) == Put(_levelsNeedsLock(lv), level, <<>>)

(***************************************************************************)
(* Logger::resetLevels                                                     *)
(***************************************************************************)
resetLevelsTable(lv, level) == Put(NoLevels, level, <<>>)

(***************************************************************************)
(* Logger::shown: the scan from loggedLevel to Trace                       *)
(***************************************************************************)
RECURSIVE shownLoop(_, _, _)
shownLoop(lv, file, index) ==
    IF ~(index <= Trace) THEN FALSE
    ELSE IF index \notin DOMAIN lv THEN shownLoop(lv, file, index + 1)
    ELSE IF _fileMatches(file, lv[index]) THEN TRUE
    ELSE shownLoop(lv, file, index + 1)

\* a lookup of the entry of loggedLevel alone, without the scan
shownExact(lv, loggedLevel, file) ==
    /\ loggedLevel \in DOMAIN _levelsNeedsLock(lv)
    /\ _fileMatches(file, _levelsNeedsLock(lv)[loggedLevel])

shown(lv, loggedLevel, file) == shownLoop(_levelsNeedsLock(lv), file, loggedLevel)

(***************************************************************************)
(* The state after static initialisation: no entry in the level table, no  *)
(* sink, no formatter, no thread index, padding on.  `last` is a history   *)
(* variable: the call that has just returned, with its arguments and what  *)
(* it did, until the caller goes on (Return).                              *)
(***************************************************************************)
Idle == [op |-> "none"]

\* the statics of _settingsContents before the first call: no path, nothing
\* seen, a default-constructed Timestamp (the epoch) and 120 seconds
NoSettings == [path |-> <<>>, lastContents |-> <<>>, lastCheck |-> 0, interval |-> 120]

\* no file exists
NoFiles == [p \in {} |-> <<>>]

\* no thread has been started
NoThreads == [t \in {} |-> "none"]

Statics ==
    /\ levels = NoLevels
    /\ sinks = <<>>
    /\ formatter = "nullptr"
    /\ threads = <<>>
    /\ spacing = "InserterPad"
    /\ aborted = FALSE
    /\ settings = NoSettings
    /\ now = StartTime
    /\ disk = NoFiles
    /\ pc = NoThreads
    /\ mutex = NoThreads
    /\ local = NoThreads
    /\ output = <<>>
    /\ released = {}

Init == Statics /\ last = Idle

(***************************************************************************)
(* The operations on the level table                                       *)
(***************************************************************************)
setLevel(level, pattern) ==
    /\ ~aborted /\ last = Idle
    /\ levels' = setLevelTable(levels, level, pattern)
    /\ last' = [op |-> "setLevel", level |-> level, pattern |-> pattern]
    /\ UNCHANGED <<sinks, formatter, threads, spacing, aborted, watch, concurrent>>

resetLevels(level) ==
    /\ ~aborted /\ last = Idle
    /\ levels' = resetLevelsTable(levels, level)
    /\ last' = [op |-> "resetLevels", level |-> level]
    /\ UNCHANGED <<sinks, formatter, threads, spacing, aborted, watch, concurrent>>

Shown(level, file) ==
    /\ ~aborted /\ last = Idle
    /\ levels' = _levelsNeedsLock(levels)
    /\ last' = [op |-> "shown", level |-> level, file |-> file,
                result |-> shown(levels, level, file), before |-> levels]
    /\ UNCHANGED <<sinks, formatter, threads, spacing, aborted, watch, concurrent>>

\* the caller goes on after the call that has returned
Return ==
    /\ ~aborted /\ last # Idle
    /\ last' = Idle
    /\ UNCHANGED <<levels, sinks, formatter, threads, spacing, aborted, watch, concurrent>>

NextLevels ==
    \/ Return
    \/ \E level \in Levels, pattern \in Patterns : setLevel(level, pattern)
    \/ \E level \in Levels : resetLevels(level)
    \/ \E level \in Levels, file \in Files : Shown(level, file)

SpecLevels == Init /\ [][NextLevels]_vars

(***************************************************************************)
(* Sinks.  A sink is its identity and its type.  A ThrowingSink (tests)    *)
(* raises on every line, a DebugSink never does, and a StreamSink raises   *)
(* when the write to its stream fails, which the caller of an operation    *)
(* chooses per call.                                                       *)
(***************************************************************************)
SinkTags == {"DebugSink", "ThrowingSink", "StdErrSink"}

\* the sinks derived from StreamSink
StreamTags == {"StdErrSink", "StdOutSink", "FileSink"}

StdErrSink(id) == [id |-> id, tag |-> "StdErrSink"]

Ids(list) == {list[i].id : i \in DOMAIN list}

StreamIds(list) == {list[i].id : i \in {j \in DOMAIN list : list[j].tag \in StreamTags}}

\* the identity of a newly constructed sink: the least one not in use
FreshId(used) ==
    CHOOSE i \in 1..(Cardinality(used) + 1) :
        i \notin used /\ \A j \in 1..(i - 1) : j \in used

\* ISink::log: whether the call raises
logRaises(sink, failing) ==
    \/ sink.tag = "ThrowingSink"
    \/ sink.tag \in StreamTags /\ sink.id \in failing

\* exception.what() of the error a sink raises
what(sink) ==
    IF sink.tag = "ThrowingSink" THEN "ThrowingSink exception"
    ELSE IF sink.tag = "StdErrSink" THEN "Failed to log to 'stderr'"
    ELSE IF sink.tag = "StdOutSink" THEN "Failed to log to 'stdout'"
    ELSE "Failed to log to file"

(***************************************************************************)
(* DefaultFormatter                                                        *)
(***************************************************************************)
levelString(level) ==
    CASE level = Fatal -> "FTL"
      [] level = Log -> "LOG"
      [] level = Error -> "ERR"
      [] level = Warning -> "WRN"
      [] level = Info -> "NFO"
      [] level = Debug -> "DBG"
      [] level = Verbose -> "VBS"
      [] level = Trace -> "TRC"
      [] OTHER -> "???"

\* format(line, thread, logger)
formatLine(line, thread, logger) ==
    [thread |-> thread, level |-> levelString(logger.level), file |-> logger.file,
     text |-> line]

\* format(exception)
formatException(message) == <<"Exception: ", message>>

\* Logger::_formatter(update)
_formatter(current, update) ==
    IF update # "nullptr" THEN update
    ELSE IF current = "nullptr" THEN "DefaultFormatter"
    ELSE current

\* Logger::_threadIndex: the list of threads afterwards and the index returned
_threadIndex(list, thread) ==
    LET found == {i \in DOMAIN list : list[i] = thread}
    IN  IF found = {} THEN [threads |-> Append(list, thread), index |-> Len(list)]
        ELSE [threads |-> list, index |-> (CHOOSE i \in found : TRUE) - 1]

(***************************************************************************)
(* Logger::_logLineCore                                                    *)
(***************************************************************************)
RemoveAt(list, i) == SubSeq(list, 1, i - 1) \o SubSeq(list, i + 1, Len(list))

Attempt(sink, line, raised) ==
    [sink |-> sink.id, tag |-> sink.tag, line |-> line, ok |-> ~raised]

\* (mutant of deliverLoop: the iterator also advances after an erase)
RECURSIVE deliverLoopSkip(_, _, _, _, _, _)
deliverLoopSkip(list, i, line, failing, failed, attempts) ==
    IF i > Len(list) THEN [sinks |-> list, failed |-> failed, attempts |-> attempts]
    ELSE IF logRaises(list[i], failing)
    THEN deliverLoopSkip(RemoveAt(list, i), i + 1, line, failing,
                         Append(failed, [first |-> formatException(what(list[i])),
                                         second |-> list[i].tag]),
                         Append(attempts, Attempt(list[i], line, TRUE)))
    ELSE deliverLoopSkip(list, i + 1, line, failing, failed,
                         Append(attempts, Attempt(list[i], line, FALSE)))

\* the delivery pass: a sink that raises is recorded and erased, and the
\* iterator then stands on the sink that followed it
RECURSIVE deliverLoop(_, _, _, _, _, _)
deliverLoop(list, i, line, failing, failed, attempts) ==
    IF i > Len(list) THEN [sinks |-> list, failed |-> failed, attempts |-> attempts]
    ELSE IF logRaises(list[i], failing)
    THEN deliverLoop(RemoveAt(list, i), i, line, failing,
                     Append(failed, [first |-> formatException(what(list[i])),
                                     second |-> list[i].tag]),
                     Append(attempts, Attempt(list[i], line, TRUE)))
    ELSE deliverLoop(list, i + 1, line, failing, failed,
                     Append(attempts, Attempt(list[i], line, FALSE)))

\* the text of the report of one captured failure
reportText(exceptionLogger) ==
    <<"Logger[", exceptionLogger.second, "]: ">> \o exceptionLogger.first

\* (mutant of reportSinks: one try around the loop, so that the first sink
\* that raises ends the reports of this failure)
RECURSIVE reportSinksUnguarded(_, _, _, _)
reportSinksUnguarded(list, i, line, failing) ==
    IF i > Len(list) THEN <<>>
    ELSE IF logRaises(list[i], failing) THEN <<Attempt(list[i], line, TRUE)>>
    ELSE <<Attempt(list[i], line, FALSE)>>
         \o reportSinksUnguarded(list, i + 1, line, failing)

\* the inner loop of the reports: one failure to every sink, errors swallowed
RECURSIVE reportSinks(_, _, _, _)
reportSinks(list, i, line, failing) ==
    IF i > Len(list) THEN <<>>
    ELSE <<Attempt(list[i], line, logRaises(list[i], failing))>>
         \o reportSinks(list, i + 1, line, failing)

\* (mutant of reportLoop: the line itself is offered again to the sinks that
\* remain, ahead of the reports)
RECURSIVE reportLoopRetry(_, _, _, _, _, _)
reportLoopRetry(failed, k, list, thread, logger, failing) ==
    IF k > Len(failed) THEN <<>>
    ELSE (IF k = 1 THEN reportSinks(list, 1, formatLine(logger.stream, thread, logger),
                                    failing)
          ELSE <<>>)
         \o reportSinks(list, 1, formatLine(reportText(failed[k]), thread, logger), failing)
         \o reportLoopRetry(failed, k + 1, list, thread, logger, failing)

\* the outer loop of the reports: every captured failure in turn
RECURSIVE reportLoop(_, _, _, _, _, _)
reportLoop(failed, k, list, thread, logger, failing) ==
    IF k > Len(failed) THEN <<>>
    ELSE reportSinks(list, 1, formatLine(reportText(failed[k]), thread, logger), failing)
         \o reportLoop(failed, k + 1, list, thread, logger, failing)

\* (mutant of withDefault: an empty list is left empty)
withoutDefault(list, used) == list

\* the default sink appended to an empty list
withDefault(list, used) == IF list = <<>> THEN <<StdErrSink(FreshId(used))>> ELSE list

\* the sink list on entry to the delivery pass
entrySinks(list) == withDefault(list, {})

\* (mutant of afterReports: a sink that raises on a report is erased like a
\* sink that raises on the line)
afterReportsEvict(list, failed, failing) ==
    IF failed = <<>> THEN list
    ELSE SelectSeq(list, LAMBDA sink : ~logRaises(sink, failing))

\* the sink list when the reports are over: `catch(...) { /* we tried */ }`
\* erases nothing
afterReports(list, failed, failing) == list

\* the whole of _logLineCore for one line, the formatter either rendering
\* or raising (DefaultFormatter::date raises when the time is unavailable)
_logLineCore(state, logger, logLine, fmtRaises, failLine, failReport) ==
    LET ti == _threadIndex(state.threads, "main")
        line == formatLine(logLine, ti.index, logger)
        entry == entrySinks(state.sinks)
        pass == deliverLoop(entry, 1, line, failLine, <<>>, <<>>)
        after == withDefault(pass.sinks, Ids(entry))
        reports == reportLoop(pass.failed, 1, after, ti.index, logger, failReport)
    IN  [state EXCEPT
           !.sinks = IF fmtRaises THEN @
                     ELSE afterReports(after, pass.failed, failReport),
           !.formatter = _formatter(@, "nullptr"),
           !.threads = ti.threads,
           !.trace = Append(@, "dispatch"),
           !.attempts = IF fmtRaises THEN <<>> ELSE pass.attempts \o reports,
           !.raised = fmtRaises,
           !.escaped = fmtRaises]

(***************************************************************************)
(* The settings file: the cache of _settingsContents, the lines of the     *)
(* file and the commands they give.  A file is the sequence of its         *)
(* characters.                                                             *)
(***************************************************************************)
Chars(str) == [i \in 1..Len(str) |-> SubSeq(str, i, i)]

isspace(c) == c \in {" ", "\t", "\n", "\r"}

\* Logger::_trim
RECURSIVE _trim(_)
_trim(str) ==
    IF str # <<>> /\ isspace(Head(str)) THEN _trim(Tail(str))
    ELSE IF str # <<>> /\ isspace(str[Len(str)]) THEN _trim(SubSeq(str, 1, Len(str) - 1))
    ELSE str

\* (mutant of _fromString: a name in f is taken for Fatal)
_fromStringFatal(level) ==
    IF level = <<>> THEN Error
    ELSE CASE Head(level) \in {"f", "F"} -> Fatal
           [] Head(level) \in {"l", "L"} -> Log
           [] Head(level) \in {"E", "e"} -> Error
           [] Head(level) \in {"w", "W"} -> Warning
           [] Head(level) \in {"i", "I"} -> Info
           [] Head(level) \in {"d", "D"} -> Debug
           [] Head(level) \in {"v", "V"} -> Verbose
           [] Head(level) \in {"t", "T"} -> Trace
           [] OTHER -> Error

\* Logger::_fromString
_fromString(level) ==
    IF level = <<>> THEN Error
    ELSE CASE Head(level) \in {"l", "L"} -> Log
           [] Head(level) \in {"E", "e"} -> Error
           [] Head(level) \in {"w", "W"} -> Warning
           [] Head(level) \in {"i", "I"} -> Info
           [] Head(level) \in {"d", "D"} -> Debug
           [] Head(level) \in {"v", "V"} -> Verbose
           [] Head(level) \in {"t", "T"} -> Trace
           [] OTHER -> Error

\* (mutant of _readFile: a path that cannot be opened gives a file that can)
_readFileFallback(files, path) ==
    IF path \in DOMAIN files THEN files[path]
    ELSE IF DOMAIN files = {} THEN <<>>
    ELSE files[CHOOSE other \in DOMAIN files : TRUE]

\* Logger::_readFile: the contents, or nothing when the file cannot be opened
_readFile(files, path) == IF path \in DOMAIN files THEN files[path] ELSE <<>>

\* (mutant of pathChanged: every call with a path resets the last check)
pathGiven(newPath, path) == newPath # <<>>

\* `pathChanged` of _settingsContents
pathChanged(newPath, path) == newPath # <<>> /\ newPath # path

\* (mutant of _settingsContents: the time of the check is recorded only when
\* new contents are handed back)
_settingsContentsOnChange(state, newPath, checkIntervalSeconds) ==
    LET set == IF newPath # <<>>
               THEN [state.settings EXCEPT
                       !.path = newPath,
                       !.interval = checkIntervalSeconds,
                       !.lastCheck = IF pathChanged(newPath, state.settings.path)
                                     THEN 0 ELSE @]
               ELSE state.settings
        timeToCheck == state.now - set.lastCheck >= set.interval
        contents == _readFile(state.disk, set.path)
    IN  IF set.path = <<>> \/ ~timeToCheck
        THEN [settings |-> set, contents |-> <<>>, read |-> FALSE]
        ELSE IF contents = <<>> \/ contents = set.lastContents
        THEN [settings |-> set, contents |-> <<>>, read |-> TRUE]
        ELSE [settings |-> [set EXCEPT !.lastCheck = state.now, !.lastContents = contents],
              contents |-> contents, read |-> TRUE]

\* Logger::_settingsContents: the cache afterwards, the contents to apply,
\* and whether the file was read
_settingsContents(state, newPath, checkIntervalSeconds) ==
    LET set == IF newPath # <<>>
               THEN [state.settings EXCEPT
                       !.path = newPath,
                       !.interval = checkIntervalSeconds,
                       !.lastCheck = IF pathChanged(newPath, state.settings.path)
                                     THEN 0 ELSE @]
               ELSE state.settings
        timeToCheck == state.now - set.lastCheck >= set.interval
        contents == _readFile(state.disk, set.path)
    IN  IF set.path = <<>> \/ ~timeToCheck
        THEN [settings |-> set, contents |-> <<>>, read |-> FALSE]
        ELSE IF contents = <<>> \/ contents = set.lastContents
        THEN [settings |-> [set EXCEPT !.lastCheck = state.now],
              contents |-> <<>>, read |-> TRUE]
        ELSE [settings |-> [set EXCEPT !.lastCheck = state.now, !.lastContents = contents],
              contents |-> contents, read |-> TRUE]

\* `Logger(Log)`: no file, no line, no function
diagnosticLogger == [level |-> Log, file |-> <<>>, doLog |-> TRUE, stream |-> <<>>]

\* (mutant of logged: the diagnostic is a statement at Log like any other,
\* dispatched only if the level table authorizes it)
loggedIfShown(run, text, fmtRaises) ==
    IF run.raised \/ ~shown(run.levels, Log, <<>>) THEN run
    ELSE LET core == _logLineCore([run EXCEPT !.attempts = <<>>], diagnosticLogger,
                                  text, fmtRaises, {}, {})
         IN  [core EXCEPT !.trace = run.trace, !.attempts = run.attempts,
                          !.diagnostics = @ \o core.attempts]

\* `Logger(Log)._logLineCore(text)`: the line goes to the sinks whatever the
\* level table says; its attempts are kept apart from those of a statement
logged(run, text, fmtRaises) ==
    IF run.raised THEN run
    ELSE LET core == _logLineCore([run EXCEPT !.attempts = <<>>], diagnosticLogger,
                                  text, fmtRaises, {}, {})
         IN  [core EXCEPT !.trace = run.trace, !.attempts = run.attempts,
                          !.diagnostics = @ \o core.attempts]

\* the log files that fopen(path, "a") cannot open
Unopenable == {Chars("none/log")}

\* addSink(new T()) as a command calls it
added(list, tag) == Append(list, [id |-> FreshId(Ids(list)), tag |-> tag])

\* the command `setLevel:<level>=<pattern>`
setLevelCommand(run, data, fmtRaises) ==
    LET equals == find(data, <<"=">>, 0)
        level == _fromString(substr(data, 0, equals))
        pattern == IF equals < Len(data) THEN _trim(substr(data, equals + 1, npos))
                   ELSE <<>>
    IN  logged([run EXCEPT !.levels = setLevelTable(@, level, pattern)],
               <<"Set level #">> \o to_string(level) \o <<" pattern = '">>
                   \o pattern \o <<"'">>,
               fmtRaises)

\* (mutant of addSinkCommand: the error of a log file that cannot be opened
\* is not caught)
addSinkCommandUncaught(run, line, data, fmtRaises) ==
    IF data = <<>> THEN logged(run, <<"Failed to add sink: ">> \o line, fmtRaises)
    ELSE IF data \in Unopenable
    THEN [run EXCEPT !.raised = TRUE, !.escaped = TRUE]
    ELSE logged([run EXCEPT !.sinks = added(@, "FileSink")],
                <<"Adding sink to ">> \o data, fmtRaises)

\* the command `addSink:<path>`
addSinkCommand(run, line, data, fmtRaises) ==
    IF data = <<>> THEN logged(run, <<"Failed to add sink: ">> \o line, fmtRaises)
    ELSE IF data \in Unopenable
    THEN logged(run, <<"Error adding sink to ">> \o data \o <<": Failed to open log">>,
                fmtRaises)
    ELSE logged([run EXCEPT !.sinks = added(@, "FileSink")],
                <<"Adding sink to ">> \o data, fmtRaises)

\* the command `clearSinks`: the diagnostic goes out first
clearSinksCommand(run, fmtRaises) ==
    LET announced == logged(run, <<"Clearing Sinks">>, fmtRaises)
    IN  IF announced.raised THEN announced ELSE [announced EXCEPT !.sinks = <<>>]

\* one line of the settings file: the body of the loop of _settingsFile
command(run, line, fmtRaises) ==
    LET eoc == find(line, <<":">>, 0)
        name == IF eoc = npos THEN line ELSE _trim(substr(line, 0, eoc))
        data == IF eoc < Len(line) THEN _trim(substr(line, eoc + 1, npos)) ELSE <<>>
    IN  CASE line = <<>> -> run
          [] line # <<>> /\ name = Chars("clearSinks") -> clearSinksCommand(run, fmtRaises)
          [] name = Chars("setFormatDefault") ->
                logged([run EXCEPT !.formatter = _formatter(@, "DefaultFormatter")],
                       <<"Resetting format to default">>, fmtRaises)
          [] name = Chars("setFormatDefaultGMT") ->
                logged([run EXCEPT !.formatter = _formatter(@, "DefaultFormatter(GMT)")],
                       <<"Resetting format to default GMT">>, fmtRaises)
          [] name = Chars("addSinkStdErr") ->
                logged([run EXCEPT !.sinks = added(@, "StdErrSink")],
                       <<"Adding stderr sink">>, fmtRaises)
          [] name = Chars("addSinkStdOut") ->
                logged([run EXCEPT !.sinks = added(@, "StdOutSink")],
                       <<"Adding stdout sink">>, fmtRaises)
          [] name = Chars("addSink") -> addSinkCommand(run, line, data, fmtRaises)
          [] name = Chars("resetLevels") ->
                logged([run EXCEPT !.levels = resetLevelsTable(@, _fromString(data))],
                       <<"resetLevels to ">> \o to_string(_fromString(data)), fmtRaises)
          [] name = Chars("pad") ->
                logged([run EXCEPT !.spacing = "InserterPad"],
                       <<"Turned padding on">>, fmtRaises)
          [] name = Chars("noPad") ->
                logged([run EXCEPT !.spacing = "InserterAsIs"],
                       <<"Turned padding off">>, fmtRaises)
          [] name = Chars("setLevel") -> setLevelCommand(run, data, fmtRaises)
          [] OTHER ->
                logged(run, <<"Unknown command '">> \o name \o <<"': ">> \o line, fmtRaises)

\* (mutant of settingsLoop: the loop ends after the first line)
settingsLoopOnce(run, contents, start, fmtRaises) ==
    IF run.raised \/ ~(start < Len(contents)) THEN run
    ELSE LET eol == find(contents, <<"\n">>, start)
         IN  command(run, _trim(substr(contents, start, eol - start)), fmtRaises)

\* the loop of _settingsFile over the lines of the contents; an error that
\* a diagnostic raises ends it
RECURSIVE settingsLoop(_, _, _, _)
settingsLoop(run, contents, start, fmtRaises) ==
    IF run.raised \/ ~(start < Len(contents)) THEN run
    ELSE LET eol == find(contents, <<"\n">>, start)
             line == _trim(substr(contents, start, eol - start))
         IN  settingsLoop(command(run, line, fmtRaises), contents,
                          IF eol < Len(contents) THEN eol + 1 ELSE eol, fmtRaises)

\* Logger::_settingsFile(newPath, checkIntervalSeconds)
_settingsFile(state, newPath, checkIntervalSeconds, fmtRaises) ==
    LET got == _settingsContents(state, newPath, checkIntervalSeconds)
        begun == [state EXCEPT !.settings = got.settings,
                               !.trace = @ \o (IF got.read THEN <<"read">> ELSE <<>>)
                                           \o (IF got.contents # <<>> THEN <<"apply">>
                                               ELSE <<>>)]
        announced == IF newPath # <<>>
                     THEN logged(begun, <<"New Settings File: ">> \o newPath, fmtRaises)
                     ELSE begun
    IN  IF got.contents = <<>> THEN announced
        ELSE settingsLoop(announced, got.contents, 0, fmtRaises)

(***************************************************************************)
(* The log statement: Logger(level, file, ..., doLog), the values          *)
(* appended to it, and its destructor.                                     *)
(***************************************************************************)
\* (mutant of _append: the space is inserted into an empty buffer too)
_appendPadded(stream, value, pad) ==
    (IF pad = "InserterPad" THEN stream \o <<" ">> ELSE stream) \o value

\* Logger::_append
_append(stream, value, pad) ==
    (IF pad = "InserterPad" /\ stream # <<>> THEN stream \o <<" ">> ELSE stream)
    \o value

\* Logger::operator<< for a string and for an arithmetic value
inserted(stream, value, pad) ==
    _append(stream, IF value.type = "int" THEN to_string(value.value) ELSE value.value, pad)

RECURSIVE appendAll(_, _, _)
appendAll(stream, values, pad) ==
    IF values = <<>> THEN stream
    ELSE appendAll(inserted(stream, Head(values), pad), Tail(values), pad)

\* (mutant of finalizes: Fatal is treated like every other level)
finalizesWhenLogged(logger) == logger.doLog /\ logger.stream # <<>>

\* ~Logger: whether the destructor goes on to log_line
finalizes(logger) ==
    ~(logger.level # Fatal /\ (~logger.doLog \/ logger.stream = <<>>))

\* (mutant of aborts: doLog is not looked at)
abortsOnFatal(logger) == logger.level = Fatal

\* ~Logger: whether the destructor ends in ::abort()
aborts(logger) == logger.doLog /\ logger.level = Fatal

\* Logger::_settingsFile() as log_line calls it
reloadCheck(state, fmtRaises) ==
    _settingsFile([state EXCEPT !.trace = Append(@, "reload")], <<>>, 0, fmtRaises)

\* Logger::shown as log_line calls it: the table is the one _levelsNeedsLock returns
queried(state) ==
    [state EXCEPT !.levels = _levelsNeedsLock(@), !.trace = Append(@, "shown")]

\* (mutant of log_line: the level table is queried as the statement finds
\* it, before the reload check has applied anything)
log_lineQueryFirst(state, logger, fmtRaises, failLine, failReport) ==
    LET checked == reloadCheck(state, fmtRaises)
    IN  IF checked.raised THEN checked
        ELSE IF ~shown(state.levels, logger.level, logger.file) THEN queried(checked)
        ELSE _logLineCore(queried(checked), logger, logger.stream,
                          fmtRaises, failLine, failReport)

\* Logger::log_line: the reload check, the query, and the dispatch
log_line(state, logger, fmtRaises, failLine, failReport) ==
    LET checked == reloadCheck(state, fmtRaises)
    IN  IF checked.raised THEN checked
        ELSE IF ~shown(checked.levels, logger.level, logger.file) THEN queried(checked)
        ELSE _logLineCore(queried(checked), logger, logger.stream,
                          fmtRaises, failLine, failReport)

\* (mutant of caught: the destructor has no try block)
uncaught(escaping) == escaping

\* ~Logger: `try { log_line(_stream); } catch(...) { }`, whether an error that
\* leaves log_line also leaves the destructor
caught(escaping) == escaping /\ FALSE

\* ~Logger
destructor(state, logger, fmtRaises, failLine, failReport) ==
    IF ~finalizes(logger) THEN state
    ELSE [log_line(state, logger, fmtRaises, failLine, failReport)
            EXCEPT !.trace = IF aborts(logger) THEN Append(@, "abort") ELSE @,
                   !.escaped = caught(@),
                   !.aborted = aborts(logger)]

\* Logger(level, file, ..., doLog) and the values appended to it
Logger(level, file, doLog, values, pad) ==
    [level |-> level, file |-> file, doLog |-> doLog,
     stream |-> appendAll(<<>>, values, pad)]

\* the process-wide state as an operation finds it, nothing done yet
entered ==
    [levels |-> levels, sinks |-> sinks, formatter |-> formatter, threads |-> threads,
     spacing |-> spacing, settings |-> settings, now |-> now, disk |-> disk,
     trace |-> <<>>, attempts |-> <<>>, diagnostics |-> <<>>,
     raised |-> FALSE, escaped |-> FALSE, aborted |-> FALSE]

\* one statement `Logger(level, file, ..., doLog) << v1 << v2 ...;`
Statement(level, file, doLog, values, fmtRaises, failLine, failReport) ==
    /\ ~aborted /\ last = Idle
    /\ \E logger \in {Logger(level, file, doLog, values, spacing)} :
         \E done \in {destructor(entered, logger, fmtRaises, failLine, failReport)} :
            /\ levels' = done.levels
            /\ sinks' = done.sinks
            /\ formatter' = done.formatter
            /\ threads' = done.threads
            /\ spacing' = done.spacing
            /\ settings' = done.settings
            /\ aborted' = done.aborted
            /\ last' = [op |-> "Logger", level |-> level, file |-> file,
                        doLog |-> doLog, values |-> values, stream |-> logger.stream,
                        trace |-> done.trace, raised |-> done.raised,
                        escaped |-> done.escaped, attempts |-> done.attempts,
                        diagnostics |-> done.diagnostics]
    /\ UNCHANGED <<now, disk, concurrent>>

(***************************************************************************)
(* The operations on the sink list                                         *)
(***************************************************************************)
addSink(tag) ==
    /\ ~aborted /\ last = Idle
    /\ Len(sinks) < MaxSinks
    /\ sinks' = IF tag = "nullptr" THEN sinks
                ELSE Append(sinks, [id |-> FreshId(Ids(sinks)), tag |-> tag])
    /\ last' = [op |-> "addSink", tag |-> tag]
    /\ UNCHANGED <<levels, formatter, threads, spacing, aborted, watch, concurrent>>

clearSinks ==
    /\ ~aborted /\ last = Idle
    /\ sinks' = <<>>
    /\ last' = [op |-> "clearSinks"]
    /\ UNCHANGED <<levels, formatter, threads, spacing, aborted, watch, concurrent>>

\* the choices of the stream sinks that raise on the line, and of those that
\* raise on a report (the default sink appended after the pass among them)
Failing(list) == SUBSET StreamIds(entrySinks(list))

ReportFailing(list) ==
    SUBSET (StreamIds(entrySinks(list)) \cup {FreshId(Ids(entrySinks(list)))})

\* `lLog << "test";`, with every outcome of the formatter and of the sinks
LogStatement ==
    /\ ~aborted /\ last = Idle
    /\ \E fmtRaises \in BOOLEAN, failLine \in Failing(sinks), failReport \in ReportFailing(sinks) :
        Statement(Log, <<"a">>, TRUE, <<Str(<<"test">>)>>, fmtRaises, failLine, failReport)

NextSinks ==
    \/ Return
    \/ \E tag \in SinkTags \cup {"nullptr"} : addSink(tag)
    \/ clearSinks
    \/ LogStatement

SpecSinks == Init /\ [][NextSinks]_vars

(***************************************************************************)
(* Log statements of every kind under every configuration of the levels,   *)
(* written to sinks that accept every line                                 *)
(***************************************************************************)
AnyStatement ==
    /\ ~aborted /\ last = Idle
    /\ \E level \in Levels, file \in Files, doLog \in BOOLEAN, values \in Streams :
        \E fmtRaises \in BOOLEAN :
            Statement(level, file, doLog, values, fmtRaises, {}, {})

NextRecord ==
    \/ Return
    \/ \E level \in Levels, pattern \in Patterns : setLevel(level, pattern)
    \/ \E level \in Levels : resetLevels(level)
    \/ AnyStatement

SpecRecord == Init /\ [][NextRecord]_vars

(***************************************************************************)
(* Properties of the level table                                           *)
(***************************************************************************)
\* file.find(name) != npos
contains(file, name) == find(file, name, 0) # npos

\* a pattern that is one file name: not empty, no ';' and no '-'
PlainName(pattern) ==
    pattern # <<>> /\ \A i \in DOMAIN pattern : pattern[i] \notin {"-", ";"}

\* C1: after resetLevels(L) a statement at level L2 is shown for a file if and
\* only if L2 <= L, for every level and every file, so that one statement at
\* each of the levels Log..Trace delivers exactly L lines.
C1_ResetLevels ==
    last.op = "resetLevels" =>
        /\ \A l \in Levels, f \in Files : shown(levels, l, f) <=> (l <= last.level)
        /\ \A f \in Files :
              Cardinality({l \in Log..Trace : shown(levels, l, f)}) = last.level

C1_Witness ==
    /\ last.op = "resetLevels" /\ last.level = Info
    /\ shown(levels, Info, <<"b">>) /\ ~shown(levels, Debug, <<"b">>)

\* C2: from a table whose only other cap is less verbose than the statement,
\* after setLevel(V, name) with name a plain file name, a statement at a level
\* <= V (and above that other cap) is shown for the files that contain name
\* and is not shown for the files that do not.
C2_SetLevelByFile ==
    [][(/\ last'.op = "setLevel"
        /\ PlainName(last'.pattern)
        /\ Cardinality(DOMAIN _levelsNeedsLock(levels)) = 1)
       => \A l \in Levels, f \in Files :
            (/\ l <= last'.level
             /\ \A c \in DOMAIN _levelsNeedsLock(levels) \ {last'.level} : c < l)
            => (shown(levels', l, f) <=> contains(f, last'.pattern))]_vars

\* C3: after setLevel(level, pattern) the table holds pattern at level; the
\* only entries removed are more verbose ones with the same pattern; no entry
\* of another level is added or changed.
C3_SetLevelFrame ==
    [][last'.op = "setLevel"
       => /\ last'.level \in DOMAIN levels'
          /\ levels'[last'.level] = last'.pattern
          /\ \A l \in Levels \ {last'.level} :
                /\ l \in DOMAIN levels'
                      => /\ l \in DOMAIN _levelsNeedsLock(levels)
                         /\ levels'[l] = _levelsNeedsLock(levels)[l]
                /\ (l \in DOMAIN _levelsNeedsLock(levels) /\ l \notin DOMAIN levels')
                      => /\ l > last'.level
                         /\ _levelsNeedsLock(levels)[l] = last'.pattern]_vars

\* C4: setLevel(V, pattern) never makes a statement at a level more verbose
\* than V shown that was not shown before.
C4_SetLevelNoWiden ==
    [][last'.op = "setLevel"
       => \A l \in Levels, f \in Files :
            (l > last'.level /\ ~shown(levels, l, f)) => ~shown(levels', l, f)]_vars

(***************************************************************************)
(* Properties of the dispatch of one line                                  *)
(***************************************************************************)
\* the call was a statement whose dispatch ran to its end
Dispatched(call) ==
    /\ call.op = "Logger"
    /\ Len(call.trace) >= 3 /\ call.trace[3] = "dispatch"
    /\ ~call.raised

\* the attempts of a call to deliver the statement's own line, and the others
Originals(call) == SelectSeq(call.attempts, LAMBDA a : a.line.text = call.stream)

Reports(call) == SelectSeq(call.attempts, LAMBDA a : a.line.text # call.stream)

SinkIds(list) == [i \in DOMAIN list |-> list[i].id]

AttemptIds(attempts) == [i \in DOMAIN attempts |-> attempts[i].sink]

\* C5: one dispatch offers the rendered line once to every sink in
\* registration order, delivers it to every sink that does not fail, evicts
\* exactly the sinks that fail and keeps the others in their order; of three
\* sinks whose second always fails, two remain and both have the line.
C5_Dispatch ==
    [][Dispatched(last')
       => LET entry == IF sinks = <<>> THEN <<StdErrSink(1)>> ELSE sinks
              orig == Originals(last')
              okIds == {orig[i].sink : i \in {j \in DOMAIN orig : orig[j].ok}}
              kept == SelectSeq(entry, LAMBDA sink : sink.id \in okIds)
          IN  /\ AttemptIds(orig) = SinkIds(entry)
              /\ \A i \in DOMAIN orig :
                    /\ orig[i].line = [thread |-> 0, level |-> "LOG",
                                       file |-> last'.file, text |-> last'.stream]
                    /\ entry[i].tag = "ThrowingSink" => ~orig[i].ok
                    /\ entry[i].tag = "DebugSink" => orig[i].ok
              /\ kept # <<>> => sinks' = kept
              /\ kept = <<>> => Len(sinks') = 1 /\ sinks'[1].id \notin Ids(entry)
              /\ (Len(sinks) = 3 /\ okIds = {sinks[1].id, sinks[3].id})
                    => sinks' = <<sinks[1], sinks[3]>>]_vars

C5_Witness ==
    /\ Dispatched(last)
    /\ Len(sinks) = 2 /\ sinks[1].tag = "DebugSink" /\ sinks[2].tag = "StdErrSink"
    /\ Len(Originals(last)) = 3
    /\ Originals(last)[1].ok /\ ~Originals(last)[2].ok /\ Originals(last)[3].ok
    /\ Originals(last)[2].tag = "ThrowingSink"

\* C6: after every dispatch that ran to its end the sink list is not empty;
\* when it was empty on entry, or every sink was evicted, it holds exactly one
\* sink, a standard-error sink, and otherwise no sink was added.
C6_NeverEmpty ==
    [][Dispatched(last')
       => LET orig == Originals(last')
              evicted == {orig[i].sink : i \in {j \in DOMAIN orig : ~orig[j].ok}}
          IN  /\ sinks' # <<>>
              /\ (sinks = <<>> \/ Ids(sinks) \subseteq evicted)
                    => /\ Len(sinks') = 1
                       /\ sinks'[1].tag = "StdErrSink"
                       /\ sinks'[1].id \notin evicted
              /\ (sinks # <<>> /\ ~(Ids(sinks) \subseteq evicted))
                    => Ids(sinks') \subseteq Ids(sinks)]_vars

C6_Witness ==
    /\ Dispatched(last)
    /\ Len(Originals(last)) = 2
    /\ \A i \in 1..2 : ~Originals(last)[i].ok
    /\ Len(sinks) = 1 /\ sinks[1].tag = "StdErrSink"

\* C7: every failure captured in the delivery pass is offered once, after all
\* the deliveries of the line itself, to every sink that remains, as the line
\* "Logger[<type>]: <description>", failure after failure and sink after sink;
\* a sink that raises on such a report stays and nothing escapes the dispatch.
C7_Reports ==
    /\ (last.op = "Logger" /\ last.attempts # <<>>) => ~last.raised
    /\ Dispatched(last)
       => LET orig == Originals(last)
              reps == Reports(last)
              failures == SelectSeq(orig, LAMBDA a : ~a.ok)
              n == Len(sinks)
          IN  /\ last.attempts = orig \o reps
              /\ Len(reps) = Len(failures) * n
              /\ \A k \in DOMAIN failures, i \in DOMAIN sinks :
                    /\ reps[(k - 1) * n + i].sink = sinks[i].id
                    /\ reps[(k - 1) * n + i].line.text
                          = <<"Logger[", failures[k].tag, "]: ", "Exception: ",
                              IF failures[k].tag = "ThrowingSink"
                              THEN "ThrowingSink exception"
                              ELSE "Failed to log to 'stderr'">>

C7_Witness ==
    /\ Dispatched(last)
    /\ Len(sinks) = 2
    /\ Len(Reports(last)) = 2
    /\ Reports(last)[1].ok /\ ~Reports(last)[2].ok

(***************************************************************************)
(* Properties of the destructor of a statement                             *)
(***************************************************************************)
\* the destructor went on to log_line
Finalized(call) == call.op = "Logger" /\ call.trace # <<>>

\* C8: a statement below Fatal is finalized (reload check, query, dispatch)
\* only with doLog true and a buffer that is not empty, and otherwise writes
\* nothing; a Fatal statement is finalized whatever doLog and the buffer are.
C8_Finalize ==
    last.op = "Logger"
    => /\ last.level # Fatal
             => (Finalized(last) <=> (last.doLog /\ last.stream # <<>>))
       /\ last.level = Fatal => Finalized(last)
       /\ Finalized(last) => SubSeq(last.trace, 1, 2) = <<"reload", "shown">>
       /\ ~Finalized(last) => last.attempts = <<>>

C8_Witness ==
    /\ last.op = "Logger" /\ last.level = Fatal
    /\ ~last.doLog /\ last.stream = <<>>
    /\ Len(last.attempts) = 1 /\ last.attempts[1].ok

\* C9: the destructor ends the process if and only if the level is Fatal and
\* doLog is true, after the flush (reload check, query, dispatch) and also
\* when the flush raised an error; nothing else ends the process.
C9_Abort ==
    /\ aborted => last.op = "Logger"
    /\ last.op = "Logger"
          => /\ aborted <=> (last.level = Fatal /\ last.doLog)
             /\ aborted
                   => /\ SubSeq(last.trace, 1, 2) = <<"reload", "shown">>
                      /\ last.trace[Len(last.trace)] = "abort"
                      /\ \A i \in 1..(Len(last.trace) - 1) : last.trace[i] # "abort"
             /\ ~aborted => \A i \in DOMAIN last.trace : last.trace[i] # "abort"

C9_Witness ==
    /\ aborted /\ last.raised
    /\ last.trace = <<"reload", "shown", "dispatch", "abort">>

\* C10: in every table that resetLevels and setLevel can produce a Fatal
\* statement is shown for every file, so the destructor of a Fatal statement
\* dispatches its line, empty buffer or not, before the process ends.
C10_FatalShown ==
    /\ \A f \in Files : shown(levels, Fatal, f)
    /\ (last.op = "Logger" /\ last.level = Fatal)
          => /\ Len(last.trace) >= 3
             /\ SubSeq(last.trace, 1, 3) = <<"reload", "shown", "dispatch">>
             /\ ~last.raised
                   => /\ last.attempts # <<>>
                      /\ \A i \in DOMAIN last.attempts :
                            /\ last.attempts[i].ok
                            /\ last.attempts[i].line.level = "FTL"
                            /\ last.attempts[i].line.text = last.stream

C10_Witness ==
    /\ last.op = "Logger" /\ last.level = Fatal /\ last.stream = <<>>
    /\ aborted /\ ~last.raised
    /\ Warning \in DOMAIN levels /\ Fatal \notin DOMAIN levels
    /\ Len(last.attempts) = 1

\* C11: whatever the finalization of a statement raised, nothing leaves the
\* scope of the statement: after the destructor the caller goes on (or the
\* process has ended for a Fatal statement), and no error is in flight.
C11_Swallowed ==
    last.op = "Logger"
    => /\ ~last.escaped
       /\ ~aborted => ENABLED Return

C11_Witness ==
    /\ last.op = "Logger" /\ last.level = Warning
    /\ last.raised /\ ~last.escaped /\ ~aborted
    /\ last.trace = <<"reload", "shown", "dispatch">>

(***************************************************************************)
(* _fileMatches on its own: every file and every pattern of the bounds     *)
(***************************************************************************)
InitMatch ==
    /\ Statics
    /\ last \in {[op |-> "input", file |-> f, pattern |-> p] :
                    f \in MatchFiles, p \in MatchPatterns}

FileMatches ==
    /\ last.op = "input"
    /\ last' = [op |-> "_fileMatches", file |-> last.file, pattern |-> last.pattern,
                result |-> _fileMatches(last.file, last.pattern)]
    /\ UNCHANGED <<levels, sinks, formatter, threads, spacing, aborted, watch, concurrent>>

NextMatch == FileMatches

SpecMatch == InitMatch /\ [][NextMatch]_vars

\* sub occurs somewhere in file
Occurs(sub, file) ==
    \E i \in 0..(Len(file) - Len(sub)) : SubSeq(file, i + 1, i + Len(sub)) = sub

\* the segments of a pattern, each ended by a ';' or by the end of the pattern
RECURSIVE Segments(_)
Segments(pattern) ==
    IF pattern = <<>> THEN <<>>
    ELSE IF \A i \in DOMAIN pattern : pattern[i] # ";" THEN <<pattern>>
    ELSE LET sep == CHOOSE i \in DOMAIN pattern :
                        pattern[i] = ";" /\ \A j \in 1..(i - 1) : pattern[j] # ";"
         IN  <<SubSeq(pattern, 1, sep - 1)>>
             \o Segments(SubSeq(pattern, sep + 1, Len(pattern)))

Negated(segment) == segment # <<>> /\ Head(segment) = "-"

\* the sequential override: a segment that the file contains sets the verdict
RECURSIVE Verdict(_, _, _)
Verdict(file, segments, verdict) ==
    IF segments = <<>> THEN verdict
    ELSE LET segment == Head(segments)
             sub == IF Negated(segment) THEN Tail(segment) ELSE segment
         IN  Verdict(file, Tail(segments),
                     IF Occurs(sub, file) THEN ~Negated(segment) ELSE verdict)

setInserterSpacing(next) ==
    /\ ~aborted /\ last = Idle
    /\ spacing' = next
    /\ last' = [op |-> "setInserterSpacing", spacing |-> next]
    /\ UNCHANGED <<levels, sinks, formatter, threads, aborted, watch, concurrent>>

PadStatement ==
    /\ ~aborted /\ last = Idle
    /\ \E values \in PadStreams : Statement(Log, <<"a">>, TRUE, values, FALSE, {}, {})

NextPadding ==
    \/ Return
    \/ \E next \in {"InserterPad", "InserterAsIs"} : setInserterSpacing(next)
    \/ PadStatement

SpecPadding == Init /\ [][NextPadding]_vars

\* the text of a value as the statement shows it
TextOf(value) ==
    IF value = Num(5) THEN <<"5">>
    ELSE IF value = Num(-12) THEN <<"-", "1", "2">>
    ELSE value.value

RECURSIVE Concat(_)
Concat(pieces) == IF pieces = <<>> THEN <<>> ELSE Head(pieces) \o Concat(Tail(pieces))

\* the buffer by the rule: a value is preceded by one space exactly when
\* padding is on and some earlier value has put text into the buffer
Padded(values, pad) ==
    Concat([i \in DOMAIN values |->
              (IF pad /\ \E j \in 1..(i - 1) : TextOf(values[j]) # <<>>
               THEN <<" ">> ELSE <<>>) \o TextOf(values[i])])

\* C20: with padding on one space precedes every appended value for which the
\* buffer is not empty and none when it is empty, with padding off nothing is
\* inserted; "test" then 5 gives "test 5" with padding and "test5" without,
\* and that text is the text of the line the sink receives.
C20_Padding ==
    last.op = "Logger"
    => /\ last.stream = Padded(last.values, spacing = "InserterPad")
       /\ last.values = <<Str(<<"test">>), Num(5)>>
             => last.stream = IF spacing = "InserterPad" THEN <<"test", " ", "5">>
                              ELSE <<"test", "5">>
       /\ last.stream # <<>>
             => /\ last.attempts # <<>>
                /\ \A i \in DOMAIN last.attempts : last.attempts[i].line.text = last.stream

C20_Witness ==
    /\ last.op = "Logger" /\ spacing = "InserterPad"
    /\ last.values = <<Str(<<>>), Str(<<"test">>), Num(5)>>
    /\ last.stream = <<"test", " ", "5">>
    /\ Len(last.attempts) = 1

(***************************************************************************)
(* The settings file watched: the file is written and removed, time        *)
(* passes, the watcher is pointed at a path, and statements run the reload *)
(* check                                                                   *)
(***************************************************************************)
Watched == Chars("p")
Missing == Chars("q")

\* the resource of the reload scenario, and the one of testCommandFile
LevelsResource == Chars("resetLevels:Log\nsetLevel:Debug=a\n")

TestResource ==
    Chars("\n  setFormatDefaultGMT\n  setFormatDefault\n  addSink: bin/test.log\n"
          \o "  resetLevels: Log\n  pad\n  noPad\n  setLevel:Error\n"
          \o "  setLevel:Debug=a\n  ")

Resources == {LevelsResource, TestResource}
Intervals == {0, 2}

\* what a call may change, as the call finds it
before ==
    [levels |-> levels, sinks |-> sinks, formatter |-> formatter, spacing |-> spacing,
     settings |-> settings]

setSettingsFile(path, checkIntervalSeconds, fmtRaises) ==
    /\ ~aborted /\ last = Idle
    /\ Len(sinks) < MaxSinks
    /\ \E done \in {_settingsFile(entered, path, checkIntervalSeconds, fmtRaises)} :
            /\ levels' = done.levels
            /\ sinks' = done.sinks
            /\ formatter' = done.formatter
            /\ threads' = done.threads
            /\ spacing' = done.spacing
            /\ settings' = done.settings
            /\ last' = [op |-> "setSettingsFile", path |-> path,
                        interval |-> checkIntervalSeconds, before |-> before,
                        trace |-> done.trace, raised |-> done.raised,
                        escaped |-> done.escaped, diagnostics |-> done.diagnostics]
    /\ UNCHANGED <<aborted, now, disk, concurrent>>

\* the environment: the watched file is written or removed, a second passes
WriteFile(contents) ==
    /\ ~aborted /\ last = Idle
    /\ disk' = [path \in {Watched} |-> contents]
    /\ UNCHANGED <<levels, sinks, formatter, threads, spacing, aborted, last,
                   settings, now, concurrent>>

RemoveFile ==
    /\ ~aborted /\ last = Idle
    /\ disk' = NoFiles
    /\ UNCHANGED <<levels, sinks, formatter, threads, spacing, aborted, last,
                   settings, now, concurrent>>

Tick ==
    /\ ~aborted /\ last = Idle
    /\ now < StartTime + MaxTicks
    /\ now' = now + 1
    /\ UNCHANGED <<levels, sinks, formatter, threads, spacing, aborted, last,
                   settings, disk, concurrent>>

\* `lDebug << "testing";` in a file named a or b
DebugStatement ==
    /\ ~aborted /\ last = Idle
    /\ Len(sinks) < MaxSinks
    /\ \E file \in {<<"a">>, <<"b">>}, fmtRaises \in BOOLEAN :
            Statement(Debug, file, TRUE, <<Str(<<"testing">>)>>, fmtRaises, {}, {})

NextSettings ==
    \/ Return
    \/ \E path \in {<<>>, Watched, Missing}, interval \in Intervals, fmtRaises \in BOOLEAN :
            setSettingsFile(path, interval, fmtRaises)
    \/ \E contents \in Resources : WriteFile(contents)
    \/ RemoveFile
    \/ Tick
    \/ DebugStatement

SpecSettings == Init /\ [][NextSettings]_vars

(***************************************************************************)
(* The watcher pointed here and there while sinks come and go              *)
(***************************************************************************)
NextWatch ==
    \/ Return
    \/ \E path \in {<<>>, Watched, Missing} : setSettingsFile(path, 0, FALSE)
    \/ WriteFile(LevelsResource)
    \/ \E tag \in {"DebugSink", "ThrowingSink"} : addSink(tag)
    \/ clearSinks
    \/ DebugStatement

SpecWatch == Init /\ [][NextWatch]_vars

(***************************************************************************)
(* Properties of the settings file                                         *)
(***************************************************************************)
\* the call took the step
Did(call, step) == \E i \in DOMAIN call.trace : call.trace[i] = step

\* the call was a reload check, on its own or in a statement, or pointed the
\* watcher at a path, and it returned
Checked(call) ==
    call.op = "setSettingsFile" \/ (call.op = "Logger" /\ Did(call, "reload"))

\* the line of the statement reached a sink
Delivered(call) ==
    \E i \in DOMAIN call.attempts :
        call.attempts[i].ok /\ call.attempts[i].line.text = call.stream

\* C16: once the resource `resetLevels:Log`, `setLevel:Debug=a` has been read
\* and applied, a Debug statement in file a is authorized, and a statement
\* that is authorized when its reload check is over is delivered.
C16_Reload ==
    /\ (/\ last.op \in {"setSettingsFile", "Logger"}
        /\ Did(last, "apply") /\ ~last.raised
        /\ settings.lastContents = LevelsResource)
       => \A level \in Fatal..Debug : shown(levels, level, <<"a">>)
    /\ (/\ last.op = "Logger" /\ ~last.raised
        /\ shown(levels, last.level, last.file))
       => Delivered(last)

C16_Witness ==
    /\ last.op = "Logger" /\ last.level = Debug /\ last.file = <<"a">>
    /\ Did(last, "apply") /\ settings.lastContents = LevelsResource
    /\ Delivered(last)
    /\ DOMAIN levels = {Log, Verbose, Trace}

\* the path is one that no file has
NoFile(path) == path # <<>> /\ path \notin DOMAIN disk

\* C17 as claimed: pointing the watcher at a path that does not exist raises
\* nothing and leaves the level table, the sink list, the formatter and the
\* padding mode as they were.
C17_NoOp ==
    (last.op = "setSettingsFile" /\ NoFile(last.path) /\ last.before.settings.path # <<>>)
    => /\ ~last.escaped
       /\ levels = last.before.levels
       /\ sinks = last.before.sinks
       /\ formatter = last.before.formatter
       /\ spacing = last.before.spacing

\* the sinks that a line leaves in the list: those that did not raise, or
\* one standard-error sink when none is left
Survivors(list) ==
    LET entry == IF list = <<>> THEN <<StdErrSink(1)>> ELSE list
        kept == SelectSeq(entry, LAMBDA sink : sink.tag # "ThrowingSink")
    IN  IF kept = <<>> THEN <<StdErrSink(FreshId(Ids(entry)))>> ELSE kept

\* C17 amended: pointing the watcher at a path that does not exist applies
\* nothing: the level table and the padding mode stay as they were; the one
\* line "New Settings File: <path>" is dispatched, which changes the sink list
\* and the formatter as every dispatch does, and the call raises only when
\* the formatter fails on that line.  Later reload checks on the path apply
\* nothing, dispatch nothing and raise nothing.
C17_Announced ==
    /\ (last.op = "setSettingsFile" /\ NoFile(last.path))
       => /\ levels = last.before.levels
          /\ spacing = last.before.spacing
          /\ ~Did(last, "apply")
          /\ settings.lastContents = last.before.settings.lastContents
          /\ formatter = IF last.before.formatter = "nullptr" THEN "DefaultFormatter"
                         ELSE last.before.formatter
          /\ last.escaped <=> last.raised
          /\ last.raised => sinks = last.before.sinks /\ last.diagnostics = <<>>
          /\ ~last.raised
                => /\ sinks = Survivors(last.before.sinks)
                   /\ last.diagnostics # <<>>
                   /\ last.diagnostics[1].line.text
                         = <<"New Settings File: ">> \o last.path
    /\ (Checked(last) /\ NoFile(settings.path)
          /\ (last.op = "setSettingsFile" => last.path = <<>>))
       => /\ ~Did(last, "apply")
          /\ last.diagnostics = <<>>
          /\ last.op = "setSettingsFile"
                => /\ ~last.raised
                   /\ levels = last.before.levels
                   /\ sinks = last.before.sinks
                   /\ formatter = last.before.formatter
                   /\ spacing = last.before.spacing

C17_Witness ==
    /\ last.op = "setSettingsFile" /\ last.path = Missing
    /\ last.before.settings.path = Watched
    /\ last.before.settings.lastContents = LevelsResource
    /\ Len(last.before.sinks) = 2 /\ last.before.sinks[2].tag = "ThrowingSink"
    /\ Len(sinks) = 1 /\ sinks[1].tag = "DebugSink"
    /\ Len(last.diagnostics) = 3

\* C18 as claimed: setSettingsFile(path, interval) with any path that is not
\* empty records the path and the interval and reads the resource at once.
C18_Immediate ==
    (last.op = "setSettingsFile" /\ last.path # <<>>)
    => /\ settings.path = last.path
       /\ settings.interval = last.interval
       /\ Did(last, "read")

\* C18 amended: the path and the interval are recorded; the last check is
\* reset to the epoch only when the path differs from the one watched, and
\* the resource is then read at once; with the path already watched the last
\* check is kept, and the resource is read only if the new interval has
\* passed since.  A read makes the current time the last check.
C18_ResetOnChange ==
    (last.op = "setSettingsFile" /\ last.path # <<>>)
    => LET was == last.before.settings
           since == IF last.path # was.path THEN 0 ELSE was.lastCheck
       IN  /\ settings.path = last.path
           /\ settings.interval = last.interval
           /\ Did(last, "read") <=> (now - since >= last.interval)
           /\ last.path # was.path => Did(last, "read")
           /\ settings.lastCheck = IF Did(last, "read") THEN now ELSE was.lastCheck

C18_Witness ==
    /\ last.op = "setSettingsFile" /\ last.path = Watched /\ last.interval = 2
    /\ last.before.settings.path = Watched
    /\ last.before.settings.lastCheck = now - 1
    /\ ~Did(last, "read")
    /\ Watched \in DOMAIN disk /\ disk[Watched] # settings.lastContents

(***************************************************************************)
(* Threads.  A call is a walk through the places where the code takes and  *)
(* gives back a lock, so that the calls of different threads interleave    *)
(* exactly where the code lets them.  Sinks and formatters return without  *)
(* raising and without calling the logger; the watched file, if one is     *)
(* named, does not exist.                                                  *)
(***************************************************************************)
Threads == 1..NumThreads

\* enum Mutex
Mutexes ==
    {"ThreadListMutex", "SinkListMutex", "FormatterMutex", "LevelsMutex", "SettingsMutex"}

\* a std::mutex no thread has locked
Unlocked == 0

NoLocks == [m \in Mutexes |-> Unlocked]

\* (mutant of Wanted: _threadIndex locks the mutex of the sink list)
WantedSinkList(place) ==
    CASE place \in {"log_line", "setSettingsFile"} -> "SettingsMutex"
      [] place \in {"shown", "setLevel", "resetLevels"} -> "LevelsMutex"
      [] place \in {"_logLineCore", "addSink", "clearSinks"} -> "SinkListMutex"
      [] place \in {"_formatter", "setFormat"} -> "FormatterMutex"
      [] place = "_threadIndex" -> "SinkListMutex"

\* the mutex the Lock at a place is constructed on
Wanted(place) ==
    CASE place \in {"log_line", "setSettingsFile"} -> "SettingsMutex"
      [] place \in {"shown", "setLevel", "resetLevels"} -> "LevelsMutex"
      [] place \in {"_logLineCore", "addSink", "clearSinks"} -> "SinkListMutex"
      [] place \in {"_formatter", "setFormat"} -> "FormatterMutex"
      [] place = "_threadIndex" -> "ThreadListMutex"

Places ==
    {"log_line", "setSettingsFile", "shown", "setLevel", "resetLevels", "_logLineCore",
     "addSink", "clearSinks", "_formatter", "setFormat", "_threadIndex"}

\* the place right after the Lock has been constructed
Inside(place) == place \o ":locked"

\* (mutant of unlock: the mutex stays locked when the Lock goes out of scope)
keepsLock(m, name) == m

\* Lock::~Lock
unlock(m, name) == [m EXCEPT ![name] = Unlocked]

\* the locals of a thread that is in no call, `left` calls to go
NoCall(left) ==
    [op |-> "none", left |-> left, level |-> Log, stage |-> "none", fmt |-> "nullptr",
     index |-> 0, line |-> <<>>, text |-> <<>>, sink |-> 0]

\* the file the statements of the threads are written in
ThreadFile == <<"a">>

\* the formatter a thread hands to setFormat: a new instance every time
NewFormatter(t, left) == "DefaultFormatter#" \o ToString(t) \o "." \o ToString(left)

\* what a render on a destroyed formatter may leave in the line
Garbage == [thread |-> 0, level |-> "???", file |-> <<>>, text |-> <<>>]

At(t, place) == pc[t] = place

Goes(t, place) == pc' = [pc EXCEPT ![t] = place]

\* the thread returns from the call
Returns(t) ==
    /\ pc' = [pc EXCEPT ![t] = "idle"]
    /\ local' = [local EXCEPT ![t] = NoCall(local[t].left)]

\* (mutant of Acquire: the Lock does not wait for the mutex)
AcquireAtOnce(t) ==
    /\ ~aborted
    /\ pc[t] \in Places \ {"_logLineCore"}
    /\ mutex' = [mutex EXCEPT ![Wanted(pc[t])] = t]
    /\ Goes(t, Inside(pc[t]))
    /\ UNCHANGED <<levels, sinks, formatter, threads, spacing, aborted, last, watch,
                   local, output, released>>

\* Lock::Lock on every mutex but the one of _logLineCore
Acquire(t) ==
    /\ ~aborted
    /\ pc[t] \in Places \ {"_logLineCore"}
    /\ mutex[Wanted(pc[t])] = Unlocked
    /\ mutex' = [mutex EXCEPT ![Wanted(pc[t])] = t]
    /\ Goes(t, Inside(pc[t]))
    /\ UNCHANGED <<levels, sinks, formatter, threads, spacing, aborted, last, watch,
                   local, output, released>>

\* (mutant of enterCore: _logLineCore constructs no Lock)
enterCoreUnlocked(t) == mutex' = mutex

\* _logLineCore: `Lock lock(_mutex(SinkListMutex))`
enterCore(t) ==
    /\ mutex[Wanted("_logLineCore")] = Unlocked
    /\ mutex' = [mutex EXCEPT ![Wanted("_logLineCore")] = t]

\* _logLineCore up to the call of _formatter()
Core(t) ==
    /\ ~aborted
    /\ At(t, "_logLineCore")
    /\ enterCore(t)
    /\ Goes(t, "_formatter")
    /\ local' = [local EXCEPT ![t].stage = "core"]
    /\ UNCHANGED <<levels, sinks, formatter, threads, spacing, aborted, last, watch,
                   output, released>>

\* _settingsContents under its Lock, the path empty in log_line; the file
\* does not exist, so there is nothing to apply, and setSettingsFile goes
\* on to announce the path
SettingsContents(t) ==
    /\ ~aborted
    /\ pc[t] \in {Inside("log_line"), Inside("setSettingsFile")}
    /\ LET mine == local[t].op = "setSettingsFile"
           got == _settingsContents([settings |-> settings, now |-> now, disk |-> disk],
                                    IF mine THEN Missing ELSE <<>>, 0)
       IN  /\ got.contents = <<>>
           /\ settings' = got.settings
           /\ mutex' = unlock(mutex, "SettingsMutex")
           /\ Goes(t, IF mine THEN "_logLineCore" ELSE "shown")
           /\ local' = [local EXCEPT ![t].text =
                           IF mine THEN <<"New Settings File: ">> \o Missing ELSE @,
                                     ![t].level = IF mine THEN Log ELSE @]
    /\ UNCHANGED <<levels, sinks, formatter, threads, spacing, aborted, last, now, disk,
                   output, released>>

\* setLevel, resetLevels and shown under their Lock; a statement that is
\* not shown ends here
LevelsCall(t) ==
    /\ ~aborted
    /\ pc[t] \in {Inside("shown"), Inside("setLevel"), Inside("resetLevels")}
    /\ levels' = CASE At(t, Inside("setLevel")) -> setLevelTable(levels, Debug, ThreadFile)
                   [] At(t, Inside("resetLevels")) -> resetLevelsTable(levels, Debug)
                   [] OTHER -> _levelsNeedsLock(levels)
    /\ mutex' = unlock(mutex, "LevelsMutex")
    /\ IF local[t].op = "Logger" /\ shown(levels, local[t].level, ThreadFile)
       THEN Goes(t, "_logLineCore") /\ UNCHANGED local
       ELSE Returns(t)
    /\ UNCHANGED <<sinks, formatter, threads, spacing, aborted, last, watch,
                   output, released>>

\* _formatter() under its Lock: the default formatter is made when there is none
Formatter(t) ==
    /\ ~aborted
    /\ At(t, Inside("_formatter"))
    /\ formatter' = _formatter(formatter, "nullptr")
    /\ mutex' = unlock(mutex, "FormatterMutex")
    /\ Goes(t, "->")
    /\ UNCHANGED <<levels, sinks, threads, spacing, aborted, last, watch,
                   local, output, released>>

\* `_formatter()->`: the reference _formatter() returned is read after its
\* Lock is gone
Dereference(t) ==
    /\ ~aborted
    /\ At(t, "->")
    /\ local' = [local EXCEPT ![t].fmt = formatter]
    /\ Goes(t, IF local[t].stage = "core" THEN "_threadIndex" ELSE "format(exception)")
    /\ UNCHANGED <<levels, sinks, formatter, threads, spacing, aborted, last, watch,
                   mutex, output, released>>

\* _threadIndex() under its Lock
ThreadIndex(t) ==
    /\ ~aborted
    /\ At(t, Inside("_threadIndex"))
    /\ threads' = _threadIndex(threads, t).threads
    /\ local' = [local EXCEPT ![t].index = _threadIndex(threads, t).index]
    /\ mutex' = unlock(mutex, "ThreadListMutex")
    /\ Goes(t, "format")
    /\ UNCHANGED <<levels, sinks, formatter, spacing, aborted, last, watch,
                   output, released>>

\* the lines a render can give: the rendered one, or, on a formatter that
\* has been destroyed, whatever the freed memory yields
Renders(instance, line, garbage) ==
    IF instance \in released THEN {line, garbage} ELSE {line}

\* `->format(logLine, index, *this)` on the instance the thread has read,
\* and the default sink of an empty list
Format(t) ==
    /\ ~aborted
    /\ At(t, "format")
    /\ \E line \in Renders(local[t].fmt,
                           formatLine(local[t].text, local[t].index,
                                      [level |-> local[t].level, file |-> ThreadFile]),
                           Garbage) :
          local' = [local EXCEPT ![t].line = line, ![t].sink = 1]
    /\ sinks' = withDefault(sinks, {})
    /\ Goes(t, "log")
    /\ UNCHANGED <<levels, formatter, threads, spacing, aborted, last, watch,
                   mutex, output, released>>

\* `->format(exception)` of operator<<, on the instance the thread has read;
\* the statement then ends and its destructor runs log_line
FormatException(t) ==
    /\ ~aborted
    /\ At(t, "format(exception)")
    /\ \E text \in Renders(local[t].fmt, formatException("what"), <<"???">>) :
          local' = [local EXCEPT ![t].text = text]
    /\ Goes(t, "log_line")
    /\ UNCHANGED <<levels, sinks, formatter, threads, spacing, aborted, last, watch,
                   mutex, output, released>>

\* a render on a destroyed formatter may as well end the process
Crash(t) ==
    /\ ~aborted
    /\ pc[t] \in {"format", "format(exception)"}
    /\ local[t].fmt \in released
    /\ aborted' = TRUE
    /\ UNCHANGED <<levels, sinks, formatter, threads, spacing, last, watch, concurrent>>

\* what a sink has written when half of a line is out
Written(sink, line, half) ==
    IF sink.tag = "DebugSink" THEN Append(output, [line |-> line, half |-> half])
    ELSE output

\* ISink::log: the sink begins to write the line
Log1(t) ==
    /\ ~aborted
    /\ At(t, "log") /\ local[t].sink <= Len(sinks)
    /\ output' = Written(sinks[local[t].sink], local[t].line, 1)
    /\ Goes(t, "log:writing")
    /\ UNCHANGED <<levels, sinks, formatter, threads, spacing, aborted, last, watch,
                   mutex, local, released>>

\* ISink::log: the rest of the line is written, and `++sink`
Log2(t) ==
    /\ ~aborted
    /\ At(t, "log:writing")
    /\ output' = Written(sinks[local[t].sink], local[t].line, 2)
    /\ local' = [local EXCEPT ![t].sink = @ + 1]
    /\ Goes(t, "log")
    /\ UNCHANGED <<levels, sinks, formatter, threads, spacing, aborted, last, watch,
                   mutex, released>>

\* _logLineCore returns when every sink has the line: no sink has failed
leaveCore(t) ==
    /\ ~aborted
    /\ At(t, "log") /\ local[t].sink > Len(sinks)
    /\ mutex' = unlock(mutex, "SinkListMutex")
    /\ Returns(t)
    /\ UNCHANGED <<levels, sinks, formatter, threads, spacing, aborted, last, watch,
                   output, released>>

\* _formatter(update) under its Lock: the move assignment destroys the
\* formatter that was there
setFormat(t) ==
    /\ ~aborted
    /\ At(t, Inside("setFormat"))
    /\ formatter' = _formatter(formatter, NewFormatter(t, local[t].left))
    /\ released' = released \cup ({formatter} \ {"nullptr"})
    /\ mutex' = unlock(mutex, "FormatterMutex")
    /\ Returns(t)
    /\ UNCHANGED <<levels, sinks, threads, spacing, aborted, last, watch, output>>

\* addSink and clearSinks under their Lock
SinksCall(t) ==
    /\ ~aborted
    /\ pc[t] \in {Inside("addSink"), Inside("clearSinks")}
    /\ sinks' = IF At(t, Inside("clearSinks")) THEN <<>>
                ELSE Append(sinks, [id |-> FreshId(Ids(sinks)), tag |-> "NullSink"])
    /\ mutex' = unlock(mutex, "SinkListMutex")
    /\ Returns(t)
    /\ UNCHANGED <<levels, formatter, threads, spacing, aborted, last, watch,
                   output, released>>

(***************************************************************************)
(* N threads, each emitting M statements at level Log to one DebugSink     *)
(* (thread_logging of the tests).                                          *)
(***************************************************************************)
DebugSink(id) == [id |-> id, tag |-> "DebugSink"]

InitLogging ==
    /\ levels = resetLevelsTable(NoLevels, Log)
    /\ sinks = <<DebugSink(1)>>
    /\ formatter = "nullptr"
    /\ threads = <<>>
    /\ spacing = "InserterAsIs"
    /\ aborted = FALSE
    /\ last = Idle
    /\ settings = NoSettings
    /\ now = StartTime
    /\ disk = NoFiles
    /\ pc = [t \in Threads |-> "idle"]
    /\ mutex = NoLocks
    /\ local = [t \in Threads |-> NoCall(MaxStatements)]
    /\ output = <<>>
    /\ released = {}

\* the text of `lLog << "thread #" << t << " iteration #" << i`
Iteration(t, i) ==
    appendAll(<<>>, <<Str(<<"thread #">>), Num(t), Str(<<" iteration #">>), Num(i)>>,
              spacing)

\* the statement: its values are appended, and its destructor calls log_line
Emit(t) ==
    /\ ~aborted
    /\ At(t, "idle") /\ local[t].left > 0
    /\ local' = [local EXCEPT ![t] =
                    [NoCall(local[t].left - 1) EXCEPT
                        !.op = "Logger", !.level = Log,
                        !.text = Iteration(t, MaxStatements - local[t].left)]]
    /\ Goes(t, "log_line")
    /\ UNCHANGED <<levels, sinks, formatter, threads, spacing, aborted, last, watch,
                   mutex, output, released>>

NextLogging ==
    \/ \E t \in Threads : Emit(t)
    \/ \E t \in Threads : Acquire(t)
    \/ \E t \in Threads : SettingsContents(t)
    \/ \E t \in Threads : LevelsCall(t)
    \/ \E t \in Threads : Core(t)
    \/ \E t \in Threads : Formatter(t)
    \/ \E t \in Threads : Dereference(t)
    \/ \E t \in Threads : ThreadIndex(t)
    \/ \E t \in Threads : Format(t)
    \/ \E t \in Threads : Log1(t)
    \/ \E t \in Threads : Log2(t)
    \/ \E t \in Threads : leaveCore(t)

SpecLogging == InitLogging /\ [][NextLogging]_vars

(***************************************************************************)
(* Threads that call any operation of the logger, MaxCalls calls each.     *)
(***************************************************************************)
Calls ==
    {"Logger", "exception", "addSink", "clearSinks", "setFormat", "setLevel",
     "resetLevels", "shown", "setSettingsFile"}

InitRace ==
    /\ levels = NoLevels
    /\ sinks = <<>>
    /\ formatter = "nullptr"
    /\ threads = <<>>
    /\ spacing = "InserterPad"
    /\ aborted = FALSE
    /\ last = Idle
    /\ settings = NoSettings
    /\ now = StartTime
    /\ disk = NoFiles
    /\ pc = [t \in Threads |-> "idle"]
    /\ mutex = NoLocks
    /\ local = [t \in Threads |-> NoCall(MaxCalls)]
    /\ output = <<>>
    /\ released = {}

\* the thread calls an operation; a statement is at level Debug, shown once
\* resetLevels(Debug) has run, and one that is given an exception renders it
\* before its destructor runs
Call(t, op) ==
    /\ ~aborted
    /\ At(t, "idle") /\ local[t].left > 0
    /\ local' = [local EXCEPT ![t] =
                    [NoCall(local[t].left - 1) EXCEPT
                        !.op = IF op = "exception" THEN "Logger" ELSE op,
                        !.level = Debug,
                        !.stage = IF op = "exception" THEN "operator<<" ELSE "none",
                        !.text = IF op = "Logger" THEN <<"test">> ELSE <<>>]]
    /\ Goes(t, CASE op = "Logger" -> "log_line"
                 [] op = "exception" -> "_formatter"
                 [] OTHER -> op)
    /\ UNCHANGED <<levels, sinks, formatter, threads, spacing, aborted, last, watch,
                   mutex, output, released>>

\* every step of thread t that is not the start of a call
Step(t) ==
    \/ Acquire(t)
    \/ SettingsContents(t)
    \/ LevelsCall(t)
    \/ Core(t)
    \/ Formatter(t)
    \/ Dereference(t)
    \/ ThreadIndex(t)
    \/ Format(t)
    \/ FormatException(t)
    \/ Log1(t)
    \/ Log2(t)
    \/ leaveCore(t)
    \/ setFormat(t)
    \/ SinksCall(t)

NextRace ==
    \/ \E t \in Threads, op \in Calls : Call(t, op)
    \/ \E t \in Threads : Acquire(t)
    \/ \E t \in Threads : SettingsContents(t)
    \/ \E t \in Threads : LevelsCall(t)
    \/ \E t \in Threads : Core(t)
    \/ \E t \in Threads : Formatter(t)
    \/ \E t \in Threads : Dereference(t)
    \/ \E t \in Threads : ThreadIndex(t)
    \/ \E t \in Threads : Format(t)
    \/ \E t \in Threads : FormatException(t)
    \/ \E t \in Threads : Crash(t)
    \/ \E t \in Threads : Log1(t)
    \/ \E t \in Threads : Log2(t)
    \/ \E t \in Threads : leaveCore(t)
    \/ \E t \in Threads : setFormat(t)
    \/ \E t \in Threads : SinksCall(t)

SpecRace == InitRace /\ [][NextRace]_vars

\* the scheduler lets every thread that can take a step take one
FairRace == SpecRace /\ \A t \in Threads : WF_vars(Step(t))

(***************************************************************************)
(* C12..C15: threads                                                       *)
(***************************************************************************)
\* the thread is between the Lock of _logLineCore and its return
InCore(t) ==
    \/ local[t].stage = "core"
       /\ pc[t] \in {"_formatter", Inside("_formatter"), "->", "_threadIndex",
                     Inside("_threadIndex"), "format"}
    \/ pc[t] \in {"log", "log:writing"}

\* every thread has emitted its statements
AllEmitted == \A t \in Threads : At(t, "idle") /\ local[t].left = 0

\* the lines the sink has in full, in the order it got them
Lines == [i \in 1..(Len(output) \div 2) |-> output[2 * i].line]

\* C12: N threads, M statements each at a shown level, one sink: rendering
\* and delivery of a statement exclude those of every other statement, what
\* the sink writes is a run of whole lines (a first half is followed by the
\* second half of the same line), no line is there twice, and when every
\* thread is done the sink has exactly N*M lines, one for each statement.
C12_Lines ==
    /\ \A t, u \in Threads : InCore(t) /\ InCore(u) => t = u
    /\ \A i \in DOMAIN output :
          /\ output[i].half = (IF i % 2 = 1 THEN 1 ELSE 2)
          /\ i % 2 = 0 => output[i].line = output[i - 1].line
    /\ \A i, j \in DOMAIN Lines : Lines[i] = Lines[j] => i = j
    /\ AllEmitted =>
          /\ Len(output) = 2 * NumThreads * MaxStatements
          /\ \A t \in Threads, k \in 0..(MaxStatements - 1) :
                \E i \in DOMAIN Lines :
                    /\ Lines[i].text = Iteration(t, k)
                    /\ Lines[i].level = "LOG"

\* every thread is done, and the sink got lines of two threads in turn
C12_Witness ==
    /\ AllEmitted
    /\ Len(output) = 2 * NumThreads * MaxStatements
    /\ \E i \in DOMAIN Lines :
          /\ i + 2 \in DOMAIN Lines
          /\ Lines[i].thread = Lines[i + 2].thread
          /\ Lines[i].thread # Lines[i + 1].thread

\* the thread is about to render with the formatter instance it has read
Rendering(t) == pc[t] \in {"format", "format(exception)"}

\* C13: replacing the formatter is atomic with respect to renders: no
\* thread renders a line or an error with a formatter instance that
\* setFormat has already destroyed.
C13_Atomic == \A t \in Threads : Rendering(t) => local[t].fmt \notin released

\* the mutexes the thread has locked
Held(t) == {m \in Mutexes : mutex[m] = t}

\* C14: no operation holds more than one of the five locks at a time.
C14_OneLock == \A t \in Threads : Cardinality(Held(t)) <= 1

\* C14, amended: an operation holds at most two of the five locks at a
\* time, and two only inside _logLineCore, which takes and gives back the
\* formatter lock and the thread-index lock, one at a time, while it holds
\* the sink-list lock; the level lock and the settings lock are never held
\* together with another lock.
C14_Nested ==
    \A t \in Threads :
        \/ Cardinality(Held(t)) <= 1
        \/ /\ Held(t) \in {{"SinkListMutex", "FormatterMutex"},
                           {"SinkListMutex", "ThreadListMutex"}}
           /\ InCore(t)

\* a thread inside _threadIndex holds the sink-list lock too, while another
\* thread holds the level lock
C14_Witness ==
    \E t, u \in Threads :
        /\ Held(t) = {"SinkListMutex", "ThreadListMutex"}
        /\ At(t, Inside("_threadIndex"))
        /\ Held(u) = {"LevelsMutex"}

\* the thread that has locked the mutex thread t is waiting for, if any
Blocker(t) == IF pc[t] \in Places THEN mutex[Wanted(pc[t])] ELSE Unlocked

RECURSIVE Chain(_, _)
\* the thread reached from t after n steps along the blockers
Chain(t, n) == IF n = 0 \/ t = Unlocked THEN t ELSE Chain(Blocker(t), n - 1)

\* the sink-list, level and settings locks are taken first, the formatter
\* and thread-index locks only after them
Rank(m) == IF m \in {"FormatterMutex", "ThreadListMutex"} THEN 2 ELSE 1

\* a thread waits only for a lock that comes after every lock it holds, and
\* no thread waits, through others, for itself
Ordered ==
    \A t \in Threads :
        /\ pc[t] \in Places => \A m \in Held(t) : Rank(m) < Rank(Wanted(pc[t]))
        /\ \A n \in 1..NumThreads : Chain(Blocker(t), n - 1) # t

\* C15: with threads calling log statements, addSink, clearSinks,
\* setFormat, setLevel, resetLevels, shown and setSettingsFile in any
\* interleaving, the locks are never acquired in a cyclic order, and under
\* fair scheduling every call that has begun returns (unless the process
\* has ended in the meantime).
C15_NoDeadlock ==
    /\ []Ordered
    /\ \A t \in Threads : ~At(t, "idle") ~> (At(t, "idle") \/ aborted)

\* a thread holds the sink-list lock and waits for the formatter lock, which
\* a thread inside setFormat holds
C15_Witness ==
    \E t, u \in Threads :
        /\ At(t, "_formatter") /\ Held(t) = {"SinkListMutex"}
        /\ At(u, Inside("setFormat")) /\ Blocker(t) = u

(***************************************************************************)
(* The expression tracer: the macros `while` and `switch` hand the guard   *)
(* to logExpressionBool and logExpression of a Logger(Trace, ...) that is  *)
(* destroyed with an empty buffer.  The loop is the one of testTraceWhile, *)
(* `while (increment < MaxLoop) { increment += 1; }`, and the sink is one  *)
(* DebugSink.                                                              *)
(***************************************************************************)
\* the values testSwitch switches on, and a negative one
SwitchValues == {0, 1, 2, -12}

\* __FILE__ of the traced code
TraceFile == <<"a">>

\* (mutant of boolText: the bool is rendered as std::to_string renders it)
boolNumber(result) == IF result THEN <<"1">> ELSE <<"0">>

\* logExpressionBool: `(result ? "true" : "false")`
boolText(result) == IF result THEN <<"true">> ELSE <<"false">>

\* flow + ": " + expression + " => " + the rendered value
expressionLine(flow, expression, rendered) ==
    flow \o <<": ">> \o expression \o <<" => ">> \o rendered

\* the Logger the macros construct: level Trace, nothing appended
traceLogger == [level |-> Trace, file |-> TraceFile, doLog |-> TRUE, stream |-> <<>>]

\* the Logger of the macro as log_line sees it in logExpression: the text
\* of the line is the argument of log_line, not the buffer
tracer(flow, expression, rendered) ==
    [traceLogger EXCEPT !.stream = expressionLine(flow, expression, rendered)]

RECURSIVE Accepted(_)
\* the lines among the attempts that a DebugSink accepted
Accepted(attempts) ==
    IF attempts = <<>> THEN <<>>
    ELSE (IF Head(attempts).ok /\ Head(attempts).tag = "DebugSink"
          THEN <<Head(attempts).line>> ELSE <<>>) \o Accepted(Tail(attempts))

\* the loop has not been entered: clearSinks, resetLevels(level), addSink(DebugSink)
InitTrace ==
    /\ \E level \in {Trace, Log} : levels = resetLevelsTable(NoLevels, level)
    /\ sinks = <<[id |-> 1, tag |-> "DebugSink"]>>
    /\ formatter = "nullptr"
    /\ threads = <<>>
    /\ spacing = "InserterPad"
    /\ aborted = FALSE
    /\ last = Idle
    /\ settings = NoSettings
    /\ now = StartTime
    /\ disk = NoFiles
    /\ pc = NoThreads
    /\ mutex = NoThreads
    /\ local = [increment |-> 0, status |-> "loop"]
    /\ output = <<>>
    /\ released = {}

\* logExpression and logExpressionBool: log_line on the text, and the value
\* handed back when log_line returns; the destructor of the Logger, its
\* buffer empty and its level not Fatal, returns at once
logExpression(op, flow, expression, result, rendered, fmtRaises) ==
    \E logger \in {tracer(flow, expression, rendered)} :
      \E done \in {log_line(entered, logger, fmtRaises, {}, {})} :
          /\ ~finalizes(traceLogger)
          /\ levels' = done.levels
          /\ sinks' = done.sinks
          /\ formatter' = done.formatter
          /\ threads' = done.threads
          /\ settings' = done.settings
          /\ output' = output \o Accepted(done.attempts)
          /\ last' = [op |-> op, flow |-> flow, value |-> result, text |-> logger.stream,
                      returns |-> ~done.raised,
                      result |-> result,
                      shown |-> shown(levels, Trace, TraceFile),
                      trace |-> done.trace, attempts |-> done.attempts,
                      raised |-> done.raised]
          /\ UNCHANGED <<spacing, aborted, now, disk, pc, mutex, released>>

\* one evaluation of the guard of the loop: the body runs when the tracer
\* hands back true, the loop is left when it hands back false, and an
\* error that leaves the tracer leaves the loop too
WhileGuard ==
    /\ ~aborted /\ last = Idle /\ local.status = "loop"
    /\ \E fmtRaises \in BOOLEAN, guard \in {local.increment < MaxLoop} :
        \E expression \in {<<"increment < ">> \o to_string(MaxLoop)},
           rendered \in {boolText(guard)} :
          /\ logExpression("logExpressionBool", <<"while">>, expression, guard, rendered,
                           fmtRaises)
          /\ local' = IF fmtRaises /\ shown(levels, Trace, TraceFile)
                      THEN [local EXCEPT !.status = "raised"]
                      ELSE IF guard
                      THEN [local EXCEPT !.increment = @ + 1]
                      ELSE [local EXCEPT !.status = "done"]

\* `switch (value)` outside the loop
SwitchValue ==
    /\ ~aborted /\ last = Idle /\ local.status # "loop" /\ Len(output) <= MaxLoop + 1
    /\ \E value \in SwitchValues, fmtRaises \in BOOLEAN :
        \E rendered \in {to_string(value)} :
          /\ logExpression("logExpression", <<"switch">>, <<"value">>, value, rendered,
                           fmtRaises)
          /\ UNCHANGED local

NextTrace ==
    \/ WhileGuard
    \/ SwitchValue
    \/ Return

SpecTrace == InitTrace /\ [][NextTrace]_vars

(***************************************************************************)
(* C21: the expression tracer                                              *)
(***************************************************************************)
\* the decimal text of the values switched on
Decimal(value) ==
    CASE value = 0 -> <<"0">>
      [] value = 1 -> <<"1">>
      [] value = 2 -> <<"2">>
      [] value = -12 -> <<"-", "1", "2">>

\* the line of the claim: `<flowKeyword>: <expressionText> => <value>`
TraceLine(call) ==
    IF call.op = "logExpressionBool"
    THEN <<"while", ": ", "increment < ">> \o digits(MaxLoop) \o
         <<" => ", IF call.value THEN "true" ELSE "false">>
    ELSE <<"switch", ": ", "value", " => ">> \o Decimal(call.value)

\* the lines of the loop the sink holds
WhileLines == SelectSeq(output, LAMBDA line : Head(line.text) = "while")

\* k lines `true` and then, if the loop is over, one line `false`
GuardLines(k, over) ==
    [i \in 1..(k + (IF over THEN 1 ELSE 0)) |->
        <<"while", ": ", "increment < ">> \o digits(MaxLoop) \o
        <<" => ", IF i <= k THEN "true" ELSE "false">>]

\* C21: the tracer hands back the value it was given; an evaluation of a
\* traced guard puts exactly one line `<flowKeyword>: <expressionText> =>
\* <value>` at level Trace to the sink when Trace is authorized for the file
\* and none when it is not; a loop whose guard is true k times and then
\* false leaves k lines `true` and then one line `false`.
C21_Tracer ==
    /\ last.op \in {"logExpression", "logExpressionBool"} =>
          /\ last.returns => last.result = last.value
          /\ ~last.shown => last.returns /\ last.attempts = <<>>
          /\ last.shown /\ last.returns =>
                /\ Len(last.attempts) = 1
                /\ last.attempts[1].ok
                /\ last.attempts[1].line.text = TraceLine(last)
                /\ last.attempts[1].line.level = "TRC"
    /\ ~shown(levels, Trace, TraceFile) => output = <<>>
    /\ shown(levels, Trace, TraceFile) /\ local.status # "raised" =>
          /\ Len(WhileLines) = local.increment + (IF local.status = "done" THEN 1 ELSE 0)
          /\ \A i \in DOMAIN WhileLines :
                WhileLines[i].text = GuardLines(local.increment, local.status = "done")[i]
          /\ local.status = "done" => local.increment = MaxLoop

\* the loop is over, its guard having been true MaxLoop times, and the
\* last evaluation handed back false
C21_Witness ==
    /\ last.op = "logExpressionBool" /\ last.returns /\ last.value = FALSE
    /\ last.shown /\ local.status = "done"
    /\ Len(WhileLines) = MaxLoop + 1

(***************************************************************************)
(* Level names: _fromString on its own and in the command                  *)
(* `resetLevels:<name>` of a settings file.                                *)
(***************************************************************************)
NameChars ==
    {"l", "L", "e", "E", "w", "W", "i", "I", "d", "D", "v", "V", "t", "T", "f", "F",
     "x", "5"}

\* short names of every spelling, and the names of the levels written out
Names ==
    SeqsUpTo(NameChars, MaxNameLen)
    \cup {Chars("Fatal"), Chars("fatal"), Chars("FATAL"), Chars("Log"), Chars("Error"),
          Chars("warning"), Chars("INFO"), Chars("Debug"), Chars("verbose"),
          Chars("Trace"), Chars("0"), Chars("none")}

\* _fromString(name)
FromString(name) ==
    /\ ~aborted /\ last = Idle
    /\ last' = [op |-> "_fromString", name |-> name, level |-> _fromString(name)]
    /\ UNCHANGED <<levels, sinks, formatter, threads, spacing, aborted, watch, concurrent>>

\* the line `resetLevels:<name>` of a settings file, applied
ResetLevelsLine(name) ==
    /\ ~aborted /\ last = Idle
    /\ \E line \in {Chars("resetLevels:") \o name} :
        \E done \in {command(entered, line, FALSE)} :
          /\ levels' = done.levels
          /\ sinks' = done.sinks
          /\ formatter' = done.formatter
          /\ threads' = done.threads
          /\ last' = [op |-> "resetLevels:", name |-> name,
                      diagnostics |-> done.diagnostics]
    /\ UNCHANGED <<spacing, aborted, watch, concurrent>>

NextNames ==
    \/ Return
    \/ \E name \in Names : FromString(name)
    \/ \E name \in Names : ResetLevelsLine(name)

SpecNames == Init /\ [][NextNames]_vars

\* the lower-case letter of a letter that names a level
Lower(c) ==
    CASE c \in {"l", "L"} -> "l"
      [] c \in {"e", "E"} -> "e"
      [] c \in {"w", "W"} -> "w"
      [] c \in {"i", "I"} -> "i"
      [] c \in {"d", "D"} -> "d"
      [] c \in {"v", "V"} -> "v"
      [] c \in {"t", "T"} -> "t"
      [] OTHER -> c

\* the level of the claim for a name
Named(name) ==
    IF name = <<>> THEN Error
    ELSE LET c == Lower(name[1])
         IN  CASE c = "l" -> Log
               [] c = "e" -> Error
               [] c = "w" -> Warning
               [] c = "i" -> Info
               [] c = "d" -> Debug
               [] c = "v" -> Verbose
               [] c = "t" -> Trace
               [] OTHER -> Error

\* C22: a level name is resolved by its first letter only, whatever its
\* case: l Log, e Error, w Warning, i Info, d Debug, v Verbose, t Trace,
\* and every other name and the empty one Error; no name resolves to Fatal,
\* and `resetLevels:<name>` resets the table to the level so resolved.
C22_FirstLetter ==
    /\ last.op = "_fromString" =>
          /\ last.level = Named(last.name)
          /\ last.level # Fatal
    /\ last.op = "resetLevels:" =>
          /\ DOMAIN levels = {Named(last.name)}
          /\ levels[Named(last.name)] = <<>>
          /\ Fatal \notin DOMAIN levels

\* the line `resetLevels:Fatal` has been applied and the table is reset to
\* Error
C22_Witness ==
    /\ last.op = "resetLevels:" /\ last.name = Chars("Fatal")
    /\ DOMAIN levels = {Error}

(***************************************************************************)
(* C23..C25: the level table as it is queried                              *)
(***************************************************************************)
\* the table _levelsNeedsLock makes of an empty one
DefaultCap == [l \in {Error} |-> <<>>]

\* C23: the table is never empty when it is queried: a query that finds no
\* entry, before any configuration or after an operation has removed every
\* entry, is answered from the table that holds the default cap Error with
\* the empty pattern and nothing else, so the statement is authorized, for
\* every file, exactly when its level is at most Error.
C23_DefaultCap ==
    last.op = "shown" =>
        /\ levels # NoLevels
        /\ last.before # NoLevels => levels = last.before
        /\ last.before = NoLevels =>
              /\ levels = DefaultCap
              /\ last.result = (last.level <= Error)

\* a query at Warning in file a has found the table empty and is refused
C23_Witness ==
    /\ last.op = "shown" /\ last.before = NoLevels
    /\ last.level = Warning /\ last.file = <<"a">> /\ ~last.result

\* C24: the step of setLevel that collapses duplicate caps changes no query
\* result: after setLevel(level, pattern) every shown(queryLevel, file) is
\* what it is on the table that only had {level: pattern} installed.
C24_Collapse ==
    [][last'.op = "setLevel" =>
          \A queryLevel \in Levels, file \in Files :
              shown(levels', queryLevel, file)
                  = shown(Installed(levels, last'.level, last'.pattern), queryLevel, file)]_vars

\* C25: authorization is downward closed in verbosity: in every table the
\* program reaches and for every file, a level that is shown makes every
\* less verbose level shown too.
C25_DownwardClosed ==
    \A file \in Files : \A level \in Levels : \A lower \in Fatal..level :
        shown(levels, level, file) => shown(levels, lower, file)

\* a pattern-restricted entry authorises Debug for a file, which no entry of a
\* less verbose level does by itself
C25_Witness ==
    /\ last.op = "shown" /\ last.result /\ last.level = Debug
    /\ \A level \in Fatal..Info : level \in DOMAIN levels => ~_fileMatches(last.file, levels[level])
    /\ shown(levels, Fatal, last.file)

(***************************************************************************)
(* C26: the rule the comment of _fileMatches documents                     *)
(***************************************************************************)
\* the names of the segments of a pattern that are not negated
Positive(pattern) ==
    {Segments(pattern)[i] : i \in {j \in DOMAIN Segments(pattern) :
                                      ~Negated(Segments(pattern)[j])}}

\* the names of the negated segments, without the '-'
Negative(pattern) ==
    {Tail(Segments(pattern)[i]) : i \in {j \in DOMAIN Segments(pattern) :
                                            Negated(Segments(pattern)[j])}}

\* C26: positive segments are ORed and negative segments are ANDed, whatever
\* their order: a pattern with positive segments matches a file only if the
\* file contains one of them and none of the negated ones.
C26_Documented ==
    (last.op = "_fileMatches" /\ Positive(last.pattern) # {} /\ last.result)
    => /\ \E name \in Positive(last.pattern) : Occurs(name, last.file)
       /\ \A name \in Negative(last.pattern) : ~Occurs(name, last.file)

\* C27: after setLevel(Error, "") statements at Error and at Log are shown
\* for every file, whatever the table was before, and no more verbose level
\* keeps an entry whose pattern is "".
C27_ErrorForAll ==
    (last.op = "setLevel" /\ last.level = Error /\ last.pattern = <<>>)
    => /\ \A file \in Files : shown(levels, Error, file) /\ shown(levels, Log, file)
       /\ \A level \in (Error + 1)..Trace :
             level \in DOMAIN levels => levels[level] # <<>>

(***************************************************************************)
(* testFileNoPattern: resetLevels(Log), setLevel(Verbose, "-F"),           *)
(* setLevel(Info, "F") and then one statement, the file name F and the     *)
(* file of the statement drawn from the names over a and b                 *)
(***************************************************************************)
TestNames == MatchFiles \ {<<>>}

\* the table is whatever the tests before have left; the sink list holds the
\* one DebugSink of the test and the formatter is a DefaultFormatter
InitNoPattern ==
    /\ levels \in {NoLevels} \cup {resetLevelsTable(NoLevels, level) : level \in Levels}
    /\ sinks = <<DebugSink(1)>>
    /\ formatter = "nullptr"
    /\ threads = <<>>
    /\ spacing = "InserterPad"
    /\ aborted = FALSE
    /\ last = Idle
    /\ settings = NoSettings
    /\ now = StartTime
    /\ disk = NoFiles
    /\ pc = NoThreads
    /\ mutex = NoThreads
    /\ local \in {[step |-> "resetLevels", name |-> name] : name \in TestNames}
    /\ output = <<>>
    /\ released = {}

NoPatternResetLevels ==
    /\ local.step = "resetLevels"
    /\ levels' = resetLevelsTable(levels, Log)
    /\ local' = [local EXCEPT !.step = "setLevel Verbose"]
    /\ last' = [op |-> "resetLevels", level |-> Log]
    /\ UNCHANGED <<sinks, formatter, threads, spacing, aborted, watch, pc, mutex,
                   output, released>>

NoPatternSetLevel(step, level, pattern, next) ==
    /\ local.step = step
    /\ levels' = setLevelTable(levels, level, pattern)
    /\ local' = [local EXCEPT !.step = next]
    /\ last' = [op |-> "setLevel", level |-> level, pattern |-> pattern]
    /\ UNCHANGED <<sinks, formatter, threads, spacing, aborted, watch, pc, mutex,
                   output, released>>

\* `l<Level> << "testing";` in a file of the name `file`
NoPatternStatement(level, file) ==
    /\ local.step = "statement"
    /\ \E logger \in {Logger(level, file, TRUE, <<Str(<<"testing">>)>>, spacing)} :
         \E done \in {destructor(entered, logger, FALSE, {}, {})} :
            /\ levels' = done.levels
            /\ sinks' = done.sinks
            /\ formatter' = done.formatter
            /\ threads' = done.threads
            /\ settings' = done.settings
            /\ aborted' = done.aborted
            /\ output' = output \o Accepted(done.attempts)
            /\ last' = [op |-> "Logger", level |-> level, file |-> file,
                        stream |-> logger.stream, trace |-> done.trace,
                        raised |-> done.raised, attempts |-> done.attempts]
    /\ local' = [local EXCEPT !.step = "done"]
    /\ UNCHANGED <<spacing, now, disk, pc, mutex, released>>

NextNoPattern ==
    \/ NoPatternResetLevels
    \/ NoPatternSetLevel("setLevel Verbose", Verbose, <<"-">> \o local.name, "setLevel Info")
    \/ NoPatternSetLevel("setLevel Info", Info, local.name, "statement")
    \/ \E level \in Levels, file \in MatchFiles : NoPatternStatement(level, file)

SpecNoPattern == InitNoPattern /\ [][NextNoPattern]_vars

Rechecked(call) ==
    \/ call.op = "Logger" /\ Did(call, "reload")
    \/ call.op = "setSettingsFile" /\ call.path = <<>>

\* C29: a reload check made less than the interval after the last check
\* reads nothing and applies nothing, and so does a check while no path is
\* watched; a check that reads makes the current time the last check, also
\* when the resource cannot be read or has not changed.
C29_Interval ==
    [][/\ Rechecked(last') =>
            /\ (settings.path = <<>> \/ now - settings.lastCheck < settings.interval)
                  => /\ ~Did(last', "read") /\ ~Did(last', "apply")
                     /\ settings' = settings
                     /\ last'.op = "setSettingsFile"
                           => /\ levels' = levels /\ sinks' = sinks
                              /\ formatter' = formatter /\ spacing' = spacing
            /\ (settings.path # <<>> /\ now - settings.lastCheck >= settings.interval)
                  => Did(last', "read")
       /\ (last'.op \in {"Logger", "setSettingsFile"} /\ Did(last', "read"))
            => /\ settings'.lastCheck = now
               /\ (NoFile(settings'.path) \/ disk[settings'.path] = settings.lastContents)
                     => /\ ~Did(last', "apply")
                        /\ settings'.lastContents = settings.lastContents]_vars

\* the check of a statement read the file, the interval having passed, and
\* found it as it was
C29_Witness ==
    /\ last.op = "Logger" /\ Did(last, "read") /\ ~Did(last, "apply")
    /\ settings.path = Watched /\ settings.interval = 2
    /\ now = StartTime + 2 /\ settings.lastCheck = now
    /\ Watched \in DOMAIN disk /\ disk[Watched] = settings.lastContents

(***************************************************************************)
(* The reload check run by several threads while the watched file changes. *)
(* Each thread calls setSettingsFile("", 0) up to MaxCalls times, which is *)
(* the check _settingsFile() that every statement starts with.  The body   *)
(* of _settingsContents under its Lock is two steps, the read of the file  *)
(* and the comparison with the contents seen last; the loop of             *)
(* _settingsFile then applies the contents one line at a time, outside     *)
(* the Lock.                                                               *)
(***************************************************************************)
FirstResource == LevelsResource
SecondResource == Chars("resetLevels:Debug\nsetLevel:Debug=a\n")

\* the watcher has been pointed at the file, which holds FirstResource; the
\* file has been seen already, or not yet
InitReload ==
    /\ levels = resetLevelsTable(NoLevels, Log)
    /\ sinks = <<DebugSink(1)>>
    /\ formatter = "nullptr"
    /\ threads = <<>>
    /\ spacing = "InserterPad"
    /\ aborted = FALSE
    /\ last = Idle
    /\ \E seen \in {<<>>, FirstResource}, interval \in Intervals :
          settings = [path |-> Watched, lastContents |-> seen, lastCheck |-> 0,
                      interval |-> interval]
    /\ now = StartTime
    /\ disk = [path \in {Watched} |-> FirstResource]
    /\ pc = [t \in Threads |-> "idle"]
    /\ mutex = NoLocks
    /\ local = [t \in Threads |-> NoCall(MaxCalls)]
    /\ output = <<>>
    /\ released = {}

\* the environment replaces the contents of the file, once
ChangeFile ==
    /\ disk[Watched] = FirstResource
    /\ disk' = [disk EXCEPT ![Watched] = SecondResource]
    /\ UNCHANGED <<levels, sinks, formatter, threads, spacing, aborted, last,
                   settings, now, concurrent>>

\* a thread starts a reload check
Recheck(t) ==
    /\ At(t, "idle") /\ local[t].left > 0
    /\ local' = [local EXCEPT ![t] =
                    [NoCall(local[t].left - 1) EXCEPT !.op = "setSettingsFile"]]
    /\ Goes(t, "setSettingsFile")
    /\ UNCHANGED <<levels, sinks, formatter, threads, spacing, aborted, last, watch,
                   mutex, output, released>>

\* _settingsContents, newPath empty, from the Lock to _readFile: without a
\* path, or before the interval has passed, "" is returned and _settingsFile
\* returns; else the time of the check is recorded and the file is read
ReadResource(t) ==
    /\ At(t, Inside("setSettingsFile"))
    /\ IF settings.path = <<>> \/ ~(now - settings.lastCheck >= settings.interval)
       THEN /\ mutex' = unlock(mutex, "SettingsMutex")
            /\ Returns(t)
            /\ UNCHANGED settings
       ELSE /\ settings' = [settings EXCEPT !.lastCheck = now]
            /\ local' = [local EXCEPT ![t].text = _readFile(disk, settings.path)]
            /\ Goes(t, "contents")
            /\ UNCHANGED mutex
    /\ UNCHANGED <<levels, sinks, formatter, threads, spacing, aborted, last, now, disk,
                   output, released>>

\* _settingsContents from the comparison to the return: contents that are
\* empty or those seen last give "", and _settingsFile returns; new contents
\* are recorded and handed to the loop of _settingsFile
Compare(t) ==
    /\ At(t, "contents")
    /\ mutex' = unlock(mutex, "SettingsMutex")
    /\ IF local[t].text = <<>> \/ local[t].text = settings.lastContents
       THEN /\ Returns(t)
            /\ UNCHANGED settings
       ELSE /\ settings' = [settings EXCEPT !.lastContents = local[t].text]
            /\ local' = [local EXCEPT ![t].index = 0]
            /\ Goes(t, "apply")
    /\ UNCHANGED <<levels, sinks, formatter, threads, spacing, aborted, last, now, disk,
                   output, released>>

\* one turn of the loop of _settingsFile: the command of the line at
\* `start` and its diagnostic; the statics of _settingsContents are not
\* touched
Apply(t) ==
    /\ At(t, "apply")
    /\ \E contents \in {local[t].text}, start \in {local[t].index} :
        \E eol \in {find(contents, <<"\n">>, start)} :
          \E done \in {command(entered, _trim(substr(contents, start, eol - start)),
                               FALSE)} :
            /\ levels' = done.levels
            /\ sinks' = done.sinks
            /\ formatter' = done.formatter
            /\ threads' = done.threads
            /\ spacing' = done.spacing
            /\ output' = output \o Accepted(done.diagnostics)
            /\ IF (IF eol < Len(contents) THEN eol + 1 ELSE eol) < Len(contents)
               THEN /\ local' = [local EXCEPT ![t].index =
                                    IF eol < Len(contents) THEN eol + 1 ELSE eol]
                    /\ UNCHANGED pc
               ELSE Returns(t)
    /\ UNCHANGED <<aborted, last, watch, mutex, released>>

NextReload ==
    \/ ChangeFile
    \/ Tick
    \/ \E t \in Threads : \/ Recheck(t)
                          \/ Acquire(t)
                          \/ ReadResource(t)
                          \/ Compare(t)
                          \/ Apply(t)

SpecReload == InitReload /\ [][NextReload]_vars

\* the first diagnostic that applying the contents sends to the sinks
Announces(contents) ==
    <<"resetLevels to ">>
        \o to_string(IF contents = FirstResource THEN Log ELSE Debug)

\* the applications of the contents begun so far, and the threads that have
\* obtained the contents and are about to apply them
Started(contents) ==
    Cardinality({i \in DOMAIN output : output[i].text = Announces(contents)})

Holding(contents) ==
    {t \in Threads : At(t, "apply") /\ local[t].text = contents /\ local[t].index = 0}

Obtained(contents) == Started(contents) + Cardinality(Holding(contents))

\* C30: each change of the settings resource is applied exactly once: no
\* contents are obtained by two reload checks, however the checks of the
\* threads interleave; the changed contents have been obtained by exactly one
\* thread once they are the contents seen last; and a check that has read the
\* contents seen last returns without applying anything.
C30_Once ==
    /\ [](/\ \A contents \in {FirstResource, SecondResource} : Obtained(contents) <= 1
          /\ Obtained(SecondResource) = (IF settings.lastContents = SecondResource
                                         THEN 1 ELSE 0)
          /\ settings.lastContents = <<>> => Obtained(FirstResource) = 0)
    /\ [][\A t \in Threads :
            (At(t, "contents") /\ pc'[t] # "contents")
            => IF local[t].text = settings.lastContents
               THEN /\ pc'[t] = "idle"
                    /\ settings' = settings /\ levels' = levels /\ output' = output
               ELSE /\ pc'[t] = "apply"
                    /\ settings'.lastContents = local[t].text]_vars

\* two checks have read the changed file: the first has obtained the new
\* contents and is about to apply them, the second holds the same contents,
\* now those seen last
C30_Witness ==
    /\ At(1, "apply") /\ local[1].text = SecondResource /\ local[1].index = 0
    /\ At(2, "contents") /\ local[2].text = SecondResource
    /\ settings.lastContents = SecondResource
    /\ Started(FirstResource) = 1

(***************************************************************************)
(* C31: the order of the reload check and the query in a finalization      *)
(***************************************************************************)
\* the places of a step in the trace of a call
StepsAt(call, step) == {i \in DOMAIN call.trace : call.trace[i] = step}

\* C31: a finalization runs the reload check first and queries the level
\* table afterwards, authorized or not; the query sees the table as the
\* reload check leaves it, so a statement the table did not authorize is
\* delivered when the change applied by its own reload check authorizes it.
C31_ReloadFirst ==
    [][last'.op = "Logger" =>
          /\ last'.trace[1] = "reload"
          /\ \A i \in StepsAt(last', "shown") :
                \A j \in StepsAt(last', "reload") \cup StepsAt(last', "read")
                            \cup StepsAt(last', "apply") : j < i
          /\ ~last'.raised =>
                /\ StepsAt(last', "shown") # {}
                /\ Did(last', "dispatch") <=> shown(levels', last'.level, last'.file)
                /\ Delivered(last') <=> shown(levels', last'.level, last'.file)
          /\ (/\ ~last'.raised /\ Did(last', "apply")
              /\ ~shown(levels, last'.level, last'.file)
              /\ shown(levels', last'.level, last'.file))
                => Delivered(last')]_vars

\* a Debug statement in file a whose own reload check applied the resource,
\* the first resource ever applied (the sink list holds no file sink), so the
\* table it found was the default one
C31_Witness ==
    /\ last.op = "Logger" /\ last.level = Debug /\ last.file = <<"a">>
    /\ last.trace = <<"reload", "read", "apply", "shown", "dispatch">>
    /\ Delivered(last)
    /\ \A i \in DOMAIN sinks : sinks[i].tag # "FileSink"
    /\ now = StartTime

(***************************************************************************)
(* Settings files with lines that fail, and with clearSinks: the file is   *)
(* written, the watcher is pointed at it or a reload check is made, while  *)
(* sinks are added and cleared and the levels reset; the formatter renders *)
(* every line                                                              *)
(***************************************************************************)
\* an unknown command, and a last line that no newline ends
UnknownResource == Chars("bogus\nnoPad")

\* a log file that cannot be opened
UnopenableResource == Chars("addSink:none/log\nresetLevels:Debug\nnoPad")

\* clearSinks, then a command that adds no sink, then one that does
ClearedResource == Chars("clearSinks\npad\naddSinkStdOut\n")

\* clearSinks with the sink addition right after it
ReplacedResource == Chars("clearSinks\naddSinkStdOut\n")

CommandResources ==
    {UnknownResource, UnopenableResource, ClearedResource, ReplacedResource}

NextCommands ==
    \/ Return
    \/ \E path \in {<<>>, Watched} : setSettingsFile(path, 0, FALSE)
    \/ \E contents \in CommandResources : WriteFile(contents)
    \/ \E tag \in {"DebugSink", "ThrowingSink"} : addSink(tag)
    \/ clearSinks
    \/ \E level \in {Fatal, Log} : resetLevels(level)

SpecCommands == Init /\ [][NextCommands]_vars

\* the diagnostics of the lines of the two resources
UnknownLine == <<"Unknown command '">> \o Chars("bogus") \o <<"': ">> \o Chars("bogus")
UnopenableLine ==
    <<"Error adding sink to ">> \o Chars("none/log") \o <<": Failed to open log">>
ResetLine == <<"resetLevels to ">> \o to_string(Debug)
NoPadLine == <<"Turned padding off">>

\* the places in the diagnostics of the call where the text was handed to
\* a sink
Offered(call, text) ==
    {i \in DOMAIN call.diagnostics : call.diagnostics[i].line.text = text}

\* each text was dispatched, and every copy of one text came before every
\* copy of the next
InOrder(call, texts) ==
    /\ \A k \in DOMAIN texts : Offered(call, texts[k]) # {}
    /\ \A k \in 1..(Len(texts) - 1) :
          \A i \in Offered(call, texts[k]), j \in Offered(call, texts[k + 1]) : i < j

\* the call applied the resource with the failing line
FailingLine(call) ==
    /\ call.op = "setSettingsFile" /\ Did(call, "apply")
    /\ settings.lastContents \in {UnknownResource, UnopenableResource}

\* the lines after the failing one were applied
Continued(call) ==
    /\ ~call.raised /\ ~call.escaped
    /\ spacing = "InserterAsIs"
    /\ settings.lastContents = UnknownResource
          => /\ InOrder(call, <<UnknownLine, NoPadLine>>)
             /\ levels = call.before.levels
    /\ settings.lastContents = UnopenableResource
          => /\ InOrder(call, <<UnopenableLine, ResetLine, NoPadLine>>)
             /\ levels = resetLevelsTable(call.before.levels, Debug)

\* C32 as claimed: an unknown command, or an addSink whose file cannot be
\* opened, is reported in a diagnostic line, raises nothing, adds no sink to
\* the list, and the lines after it are applied in order, the last one also
\* when no newline ends it.
C32_NoSink ==
    (FailingLine(last) /\ last.path = <<>>)
    => /\ Continued(last)
       /\ Ids(sinks) \subseteq Ids(last.before.sinks)

\* C32 amended: as claimed, but the line adds no file sink, and the sink
\* list changes as the dispatch of the diagnostics changes it: the sinks
\* that fail on a diagnostic are evicted, and one default standard-error
\* sink is appended when the list is empty or every sink has failed.
C32_Diagnosed ==
    FailingLine(last)
    => /\ Continued(last)
       /\ sinks = Survivors(last.before.sinks)
       /\ \A i \in DOMAIN sinks : sinks[i].tag # "FileSink"

\* the resource with the log file that cannot be opened, applied by a reload
\* check that found the sink list empty
C32_Witness ==
    /\ FailingLine(last) /\ last.path = <<>>
    /\ settings.lastContents = UnopenableResource
    /\ last.before.sinks = <<>> /\ sinks = <<StdErrSink(1)>>
    /\ DOMAIN levels = {Debug}

C34_LineLost ==
    [][Dispatched(last')
       => LET entry == IF sinks = <<>> THEN <<StdErrSink(1)>> ELSE sinks
              orig == Originals(last')
              reps == Reports(last')
          IN  (/\ Len(orig) >= Len(entry)
               /\ \A i \in DOMAIN entry : orig[i].sink = entry[i].id /\ ~orig[i].ok)
              => /\ Len(orig) = Len(entry)
                 /\ \A i \in DOMAIN last'.attempts :
                       last'.attempts[i].ok => last'.attempts[i].line.text # last'.stream
                 /\ Len(sinks') = 1
                 /\ sinks'[1].tag = "StdErrSink" /\ sinks'[1].id \notin Ids(entry)
                 /\ Len(reps) = Len(entry)
                 /\ \A i \in DOMAIN reps :
                       /\ reps[i].sink = sinks'[1].id
                       /\ reps[i].line.text[1] = "Logger["]_vars

\* a list of one sink, which failed; the report reached the default sink
C34_Witness ==
    /\ Dispatched(last)
    /\ Len(last.attempts) = 2
    /\ last.attempts[1].tag = "ThrowingSink" /\ ~last.attempts[1].ok
    /\ last.attempts[1].line.text = last.stream
    /\ last.attempts[2].tag = "StdErrSink" /\ last.attempts[2].ok
    /\ last.attempts[2].line.text # last.stream
    /\ Len(sinks) = 1 /\ sinks[1].tag = "StdErrSink"

\* the sinks the reports of a call were handed to, in the order of the first
\* round of reports
Reported(call, n) == AttemptIds(SubSeq(Reports(call), 1, n))

\* C35: a sink that accepts the line and raises on a failure report is not
\* evicted and no report is made of it: when the dispatch returns the list
\* is the list the reports were handed to, the sink at the place where it
\* got the report (its place on entry when no sink before it was evicted),
\* and the reports are those of the sinks that failed on the line.
C35_ReportFailure ==
    [][Dispatched(last')
       => LET entry == IF sinks = <<>> THEN <<StdErrSink(1)>> ELSE sinks
              orig == Originals(last')
              reps == Reports(last')
              failures == SelectSeq(orig, LAMBDA a : ~a.ok)
          IN  \A i \in DOMAIN reps :
                 ~reps[i].ok
                 => LET id == reps[i].sink
                        place == ((i - 1) % Len(sinks')) + 1
                    IN  /\ Len(reps) = Len(failures) * Len(sinks')
                        /\ Reported(last', Len(sinks')) = SinkIds(sinks')
                        /\ sinks'[place].id = id
                        /\ (\E k \in DOMAIN orig : orig[k].sink = id /\ orig[k].ok)
                              => /\ \E k \in DOMAIN entry : entry[k].id = id
                                 /\ \A k \in DOMAIN entry :
                                       (/\ entry[k].id = id
                                        /\ \A j \in 1..(k - 1) : orig[j].ok)
                                       => place = k]_vars

\* of a Throwing sink and two standard-error sinks the first failed on the
\* line and the third on the report; the second and the third remain
C35_Witness ==
    /\ Dispatched(last)
    /\ Len(Originals(last)) = 3 /\ Len(Reports(last)) = 2
    /\ Originals(last)[1].tag = "ThrowingSink"
    /\ Originals(last)[3].ok /\ ~Reports(last)[2].ok
    /\ Reports(last)[1].ok
    /\ Len(sinks) = 2 /\ sinks[2].id = Reports(last)[2].sink
    /\ sinks[2].id = Originals(last)[3].sink

(***************************************************************************)
(* C36: clearSinks in a settings file                                      *)
(***************************************************************************)
\* the sinks the text was handed to, in the order of the attempts
OfferedTo(call, text) ==
    AttemptIds(SelectSeq(call.diagnostics, LAMBDA a : a.line.text = text))

\* C36: the diagnostics of the reloader are dispatched whatever the level
\* table says, so after `clearSinks` the diagnostic of the next command, one
\* that adds no sink, finds the list empty and appends the default
\* standard-error sink, and the sink of a later addSinkStdOut comes after it;
\* with the addSinkStdOut right after clearSinks the list holds that sink
\* alone.
C36_DefaultAfterClear ==
    (last.op = "setSettingsFile" /\ Did(last, "apply"))
    => /\ settings.lastContents = ClearedResource
             => /\ ~last.raised
                /\ Len(sinks) = 2
                /\ sinks[1].tag = "StdErrSink" /\ sinks[2].tag = "StdOutSink"
                /\ OfferedTo(last, <<"Turned padding on">>) = <<sinks[1].id>>
                /\ OfferedTo(last, <<"Adding stdout sink">>) = <<sinks[1].id, sinks[2].id>>
                /\ \A i \in DOMAIN last.diagnostics : last.diagnostics[i].line.level = "LOG"
       /\ settings.lastContents = ReplacedResource
             => /\ ~last.raised
                /\ Len(sinks) = 1 /\ sinks[1].tag = "StdOutSink"
                /\ OfferedTo(last, <<"Adding stdout sink">>) = <<sinks[1].id>>

\* the resource applied by a reload check while the list held two sinks and
\* the level table authorized Fatal statements only
C36_Witness ==
    /\ last.op = "setSettingsFile" /\ last.path = <<>> /\ Did(last, "apply")
    /\ settings.lastContents = ClearedResource
    /\ Len(last.before.sinks) = 2
    /\ last.before.sinks[1].tag = "DebugSink" /\ last.before.sinks[2].tag = "ThrowingSink"
    /\ Len(sinks) = 2 /\ sinks[1].tag = "StdErrSink"
    /\ DOMAIN levels = {Fatal} /\ ~shown(levels, Log, <<>>)

====
